---- MODULE Spec2Model ----
(***************************************************************************)
(* A model of the maintenance chat agent (src/src/improved_agent.py):      *)
(*   - CacheManager, the LRU response cache (SpecCache);                   *)
(*   - ImprovedAgentChat.execute, one turn at a time on one agent          *)
(*     instance, with the SQL retrieval pipeline, the visualization        *)
(*     pipeline and the artefact store it drives (Spec).                   *)
(* Optional values are sequences: None is <<>> and a present value x is    *)
(* <<x>>.                                                                  *)
(***************************************************************************)
EXTENDS Integers, Sequences, FiniteSets, TLC

VARIABLES
    cache,          \* CacheManager.cache: key -> value
    access_order,   \* CacheManager.access_order: keys, least recent first
    max_size,       \* CacheManager.max_size
    ccall,          \* the last CacheManager call and what it returned
    lastAccess,     \* history: key -> rank of its most recent set / successful get (0: never)
    refLive,        \* history: key -> value of the entries a strict LRU of this capacity holds
    since,          \* history: key -> keys present at its last get hit, not accessed or evicted since
    gotHit,         \* history: keys whose current residence in the cache saw a get hit
    \* ImprovedAgentChat: the session state
    history,        \* self.history
    context,        \* self.context
    artefacts,      \* self.artefacts (without its metrics)
    metrics,        \* self.artefacts.metrics
    counter,        \* self.fs.counter
    \* ImprovedAgentChat.execute: the turn in progress
    pc,             \* where execute stands ("idle": no call in progress)
    turn,           \* number of execute calls made
    cache_key,      \* execute's cache_key
    cls,            \* the classification result
    plan,           \* the action plan
    reply,          \* reply_en
    ret,            \* what the last execute call returned
    \* _supervised_sql_async
    attempt,        \* the loop's attempt
    base_query,     \* the feedback query
    sql_cur,        \* the statement drafted in this attempt
    sql_result,     \* the tuple the pipeline returned
    \* the tasks of a turn
    ans,            \* the final-answer task
    img,            \* the image task of this turn
    orphan,         \* an image task left running by a turn that has returned
    orphanAns,      \* a final-answer task left running by a turn that has returned
    \* history of the turn, never read by the program
    logOn,          \* whether sqlLog is kept (it is under SpecSql)
    sqlLog,         \* what each attempt of the running pipeline drafted and got
    branches,       \* the branches this turn has entered
    merges,         \* number of artefact merges this turn has made
    hist0,          \* self.history when the turn began
    ctx0,           \* self.context when the turn began
    art0,           \* self.artefacts when the turn began
    cnt0,           \* self.fs.counter when the turn or the pipeline run began
    swallowed,      \* kinds of exception the SQL pipeline caught in this turn
    handles,        \* per kind, the handles the store calls of the session returned
    \* AsyncLLM
    llm,            \* the chat or struct invocation in progress, or the last one
    \* fastapi_microservice
    sessions,       \* the keys of the sessions dict, in insertion order
    issued,         \* number of sessions created; their ids are 1..issued
    http,           \* the last call of a registry operation and what it returned
    deleted,        \* history: the session ids delete_session has removed
    reqs,           \* the chat requests on one session: where each one's execute stands
    steps,          \* history: the session-state steps of those requests, in order
    agents,         \* the values of the sessions dict: id -> the ImprovedAgentChat
    served          \* the last call of chat: the id sent, the id and agent that served it

cacheVars == <<cache, access_order, max_size>>
cacheHist == <<ccall, lastAccess, refLive, since, gotHit>>
sessVars == <<history, context, artefacts, metrics, counter>>
turnVars == <<pc, turn, cache_key, cls, plan, reply, ret>>
sqlVars == <<attempt, base_query, sql_cur, sql_result>>
taskVars == <<ans, img, orphan, orphanAns>>
histVars == <<logOn, sqlLog, branches, merges, hist0, ctx0, art0, cnt0>>

ghostVars == <<swallowed, handles>>
llmVars == <<llm>>
svcVars == <<sessions, issued, http, deleted, reqs, steps, agents, served>>

vars == <<cacheVars, cacheHist, sessVars, turnVars, sqlVars, taskVars, histVars,
          ghostVars, llmVars, svcVars>>

----------------------------------------------------------------------------
(* Bounds of the cache model *)
NumKeys == 3
NumVals == 2
MaxCap == 2

CacheKeys == 1..NumKeys
CacheVals == 1..NumVals

None == <<>>
Some(x) == <<x>>

EmptyDict == [x \in {} |-> 0]

Range(s) == {s[i] : i \in 1..Len(s)}

ListRemoveNothing(s, x) == s

\* list.remove(x): drops the first occurrence of x
RECURSIVE ListRemove(_, _)
ListRemove(s, x) ==
    IF s = <<>> THEN <<>>
    ELSE IF Head(s) = x THEN Tail(s)
    ELSE <<Head(s)>> \o ListRemove(Tail(s), x)

DictDel(c, k) == [x \in DOMAIN c \ {k} |-> c[x]]

DictPut(c, k, v) == [x \in DOMAIN c \cup {k} |-> IF x = k THEN v ELSE c[x]]

----------------------------------------------------------------------------
(* CacheManager *)

PromoteNot(order, k) == order

\* get: access_order.remove(key); access_order.append(key)
Promote(order, k) == Append(ListRemove(order, k), k)

CacheGetMiss(c, order, k) == [order |-> order, ret |-> None, err |-> "none"]

\* get(key): the new access_order, the value returned and the exception raised
CacheGetResult(c, order, k) ==
    IF k \in DOMAIN c
    THEN IF k \in Range(order)
         THEN [order |-> Promote(order, k), ret |-> Some(c[k]), err |-> "none"]
         ELSE [order |-> order, ret |-> None, err |-> "ValueError"]
    ELSE [order |-> order, ret |-> None, err |-> "none"]

EvictNewest(c, order) ==
    IF order = <<>> THEN [cache |-> c, order |-> order, err |-> "IndexError"]
    ELSE [cache |-> DictDel(c, order[Len(order)]),
          order |-> SubSeq(order, 1, Len(order) - 1), err |-> "none"]

\* set, at capacity: oldest = access_order.pop(0); del cache[oldest]
EvictOldest(c, order) ==
    IF order = <<>> THEN [cache |-> c, order |-> order, err |-> "IndexError"]
    ELSE IF Head(order) \notin DOMAIN c
         THEN [cache |-> c, order |-> Tail(order), err |-> "KeyError"]
         ELSE [cache |-> DictDel(c, Head(order)), order |-> Tail(order), err |-> "none"]

\* a set that tests the capacity before it tests for the key
CacheSetNothing(c, order, cap, k, v) == [cache |-> c, order |-> order, err |-> "none"]

CacheSetCapacityFirst(c, order, cap, k, v) ==
    LET e == IF Cardinality(DOMAIN c) >= cap THEN EvictOldest(c, order)
             ELSE [cache |-> c, order |-> order, err |-> "none"]
    IN  IF e.err # "none" THEN e
        ELSE [cache |-> DictPut(e.cache, k, v),
              order |-> Append(ListRemove(e.order, k), k), err |-> "none"]

\* set(key, value): the new cache and access_order, and the exception raised
CacheSetResult(c, order, cap, k, v) ==
    IF k \in DOMAIN c
    THEN IF k \in Range(order)
         THEN [cache |-> DictPut(c, k, v),
               order |-> Append(ListRemove(order, k), k), err |-> "none"]
         ELSE [cache |-> c, order |-> order, err |-> "ValueError"]
    ELSE IF Cardinality(DOMAIN c) >= cap
         THEN LET e == EvictOldest(c, order)
              IN  IF e.err # "none" THEN e
                  ELSE [cache |-> DictPut(e.cache, k, v),
                        order |-> Append(e.order, k), err |-> "none"]
         ELSE [cache |-> DictPut(c, k, v), order |-> Append(order, k), err |-> "none"]

----------------------------------------------------------------------------
(* History of the cache calls, kept beside the cache and never read by it *)

\* k becomes the most recently accessed key; ranks stay 1..n
Touch(la, k) ==
    LET t == [la EXCEPT ![k] = NumKeys + 1]
    IN  [j \in DOMAIN la |->
            IF t[j] = 0 THEN 0
            ELSE Cardinality({i \in DOMAIN la : t[i] # 0 /\ t[i] <= t[j]})]

\* the key of d accessed longest ago
Oldest(la, d) == CHOOSE e \in d : \A j \in d : la[e] <= la[j]

\* a strict LRU of capacity cap after put(k, v)
RefPut(live, la, cap, k, v) ==
    IF k \in DOMAIN live \/ Cardinality(DOMAIN live) < cap
    THEN DictPut(live, k, v)
    ELSE DictPut(DictDel(live, Oldest(la, DOMAIN live)), k, v)

CacheInit ==
    /\ cache = EmptyDict
    /\ access_order = <<>>
    /\ ccall = [op |-> "new", key |-> 0, val |-> 0, ret |-> None, err |-> "none",
                old |-> None, present |-> FALSE, full |-> FALSE, evicted |-> {}]
    /\ lastAccess = [k \in CacheKeys |-> 0]
    /\ refLive = EmptyDict
    /\ since = [k \in CacheKeys |-> {}]
    /\ gotHit = {}

\* cache.get(k)
CacheGet(k) ==
    LET r == CacheGetResult(cache, access_order, k)
        hit == r.ret # None
    IN  /\ access_order' = r.order
        /\ ccall' = [op |-> "get", key |-> k, val |-> 0, ret |-> r.ret, err |-> r.err,
                     old |-> IF k \in DOMAIN cache THEN Some(cache[k]) ELSE None,
                     present |-> k \in DOMAIN cache,
                     full |-> Cardinality(DOMAIN cache) >= max_size, evicted |-> {}]
        /\ lastAccess' = IF hit THEN Touch(lastAccess, k) ELSE lastAccess
        /\ gotHit' = IF hit THEN gotHit \cup {k} ELSE gotHit
        /\ since' = IF hit
                    THEN [j \in CacheKeys |->
                            IF j = k THEN DOMAIN cache \ {k} ELSE since[j] \ {k}]
                    ELSE since
        /\ UNCHANGED <<cache, max_size, refLive>>
        /\ UNCHANGED <<sessVars, turnVars, sqlVars, taskVars, histVars,
                       ghostVars, llmVars, svcVars>>

\* cache.set(k, v)
CacheSet(k, v) ==
    LET r == CacheSetResult(cache, access_order, max_size, k, v)
        gone == DOMAIN cache \ DOMAIN r.cache
    IN  /\ cache' = r.cache
        /\ access_order' = r.order
        /\ ccall' = [op |-> "set", key |-> k, val |-> v, ret |-> None, err |-> r.err,
                     old |-> IF k \in DOMAIN cache THEN Some(cache[k]) ELSE None,
                     present |-> k \in DOMAIN cache,
                     full |-> Cardinality(DOMAIN cache) >= max_size, evicted |-> gone]
        /\ lastAccess' = Touch(lastAccess, k)
        /\ refLive' = RefPut(refLive, lastAccess, max_size, k, v)
        /\ gotHit' = IF k \in DOMAIN cache THEN gotHit ELSE gotHit \ {k}
        /\ since' = [j \in CacheKeys |->
                        IF j = k THEN (IF k \in DOMAIN cache THEN since[k] \ gone ELSE {})
                        ELSE since[j] \ ({k} \cup gone)]
        /\ UNCHANGED max_size
        /\ UNCHANGED <<sessVars, turnVars, sqlVars, taskVars, histVars,
                       ghostVars, llmVars, svcVars>>

----------------------------------------------------------------------------
(* ImprovedAgentChat: values *)

(* Bounds of the agent model *)
MaxTurns == 2
NumMsgs == 2
NumSqlTexts == 2
NumHeads == 1

\* CacheManager's default max_size, which ImprovedAgentChat takes
AgentCacheSize == 100
MAX_SQL_RETRIES == 3

Msgs == 1..NumMsgs

\* A context string: its first 100 characters and whether more follow them
Contexts == [head : 0..NumHeads, more : BOOLEAN]

\* "There is no relevant context for this conversation."
InitContext == [head |-> 0, more |-> FALSE]

\* self.context[:100]
ContextPrefix(c) == c.head

CacheKeyMessageOnly(m, c) == <<m, 0>>

\* f"{user_message}:{self.context[:100]}"
CacheKey(m, c) == <<m, ContextPrefix(c)>>

\* A SQL text the model drafts; 0 is the empty string
EmptyText == 0
SqlTexts == 0..NumSqlTexts

\* Artefacts(): every field None
NoArtefacts ==
    [sql_query |-> None, data |-> None, data_file |-> None, image_file |-> None,
     code_file |-> None, answer |-> None, image |-> None, code |-> None]

\* ProcessingMetrics(): sql_time and image_time None, sql_attempts 0
NoMetrics == [sql_time |-> None, image_time |-> None, sql_attempts |-> 0]

\* A reply text: the turn that produced it and what it says
Resp(t, kind) == [turn |-> t, kind |-> kind]

\* "Lo siento, ha ocurrido un error procesando tu solicitud. ..."
Apology == Resp(0, "apology")

NoRet ==
    [flow |-> "none", response |-> Resp(0, "none"), reason |-> "none", keys |-> {},
     sql_time |-> None, image_time |-> None, sql_attempts |-> None, error |-> "none"]

\* execute, on a cache hit: the cached response and {"cached", "time"}
CachedResult(v) ==
    [flow |-> "cached", response |-> v.response, reason |-> "none",
     keys |-> {"cached", "time"},
     sql_time |-> None, image_time |-> None, sql_attempts |-> None, error |-> "none"]

\* execute, bad flow: the metrics returned with the reply
BadResult(t, reason) ==
    [flow |-> "bad", response |-> Resp(t, reason), reason |-> reason,
     keys |-> {"session_id", "total_time", "flow", "reason"},
     sql_time |-> None, image_time |-> None, sql_attempts |-> None, error |-> "none"]

\* execute, good flow: the metrics returned with the reply
GoodResult(t, kind, m) ==
    [flow |-> "good", response |-> Resp(t, kind), reason |-> "none",
     keys |-> {"session_id", "total_time", "sql_time", "image_time", "sql_attempts", "flow"},
     sql_time |-> m.sql_time, image_time |-> m.image_time,
     sql_attempts |-> Some(m.sql_attempts), error |-> "none"]

\* execute, except Exception as e: the apology and {"error": str(e), "session_id"}
ErrorResult(e) ==
    [flow |-> "error", response |-> Apology, reason |-> "none",
     keys |-> {"error", "session_id"},
     sql_time |-> None, image_time |-> None, sql_attempts |-> None, error |-> e]

\* _good_flow_async: {"role": "user", "content": request}
UserEntry(t) == [role |-> "user", turn |-> t, kind |-> "request"]

AssistantEntryAsUser(t, kind) == [role |-> "user", turn |-> t, kind |-> kind]

\* execute: {"role": "assistant", "content": reply_en}
AssistantEntry(t, kind) == [role |-> "assistant", turn |-> t, kind |-> kind]

BadReasonContextFirst(c) ==
    IF ~c.is_context_sufficient THEN "context_not_sufficient" ELSE "not_on_topic"

IsBadFlowOffTopicOnly(c) == ~c.is_on_topic

\* execute: not (is_on_topic and is_context_sufficient)
IsBadFlow(c) == ~(c.is_on_topic /\ c.is_context_sufficient)

\* execute: "not_on_topic" if not is_on_topic else "context_not_sufficient"
BadReason(c) ==
    IF ~c.is_on_topic THEN "not_on_topic" ELSE "context_not_sufficient"

NoTableNever(art) == FALSE

\* self.artefacts.data is None: df.to_string and data.head raise AttributeError
NoTable(art) == art.data = None

BranchOfImageFirst(a) ==
    IF a.is_new_image_needed THEN "image_only"
    ELSE IF a.is_new_sql_query_needed THEN "data_refresh" ELSE "answer_only"

\* _good_flow_async: the branch an action plan is dispatched to
BranchOf(a) ==
    IF ~a.is_new_sql_query_needed /\ ~a.is_new_image_needed THEN "answer_only"
    ELSE IF a.is_new_image_needed /\ ~a.is_new_sql_query_needed THEN "image_only"
    ELSE IF a.is_new_image_needed THEN "data_refresh_image" ELSE "data_refresh"

MergeReplace(art, items) ==
    [f \in DOMAIN art |-> IF f \in DOMAIN items THEN items[f] ELSE None]

\* _record_artefacts_async: setattr(self.artefacts, k, v) for each new item
Merge(art, items) ==
    [f \in DOMAIN art |-> IF f \in DOMAIN items THEN items[f] ELSE art[f]]

\* _answer_only_branch: {"answer": final_answer}
AnswerItems(t) == [answer |-> Some(t)]

\* _image_only_branch_async: art_dict
ImageItems(task) ==
    [image_file |-> task.image_file, code_file |-> task.code_file,
     image |-> Some(task.turn), code |-> Some(task.turn)]

RefreshItemsTableOnly(r, task, also_image) ==
    [sql_query |-> Some(r.sql_query), data |-> r.df, data_file |-> r.data_path]

\* _data_refresh_branch_async: art_dict, updated with the image items when also_image
RefreshItems(r, task, also_image) ==
    IF also_image
    THEN [sql_query |-> Some(r.sql_query), data |-> r.df, data_file |-> r.data_path,
          image_file |-> task.image_file, code_file |-> task.code_file,
          image |-> Some(task.turn), code |-> Some(task.turn)]
    ELSE [sql_query |-> Some(r.sql_query), data |-> r.df, data_file |-> r.data_path]

----------------------------------------------------------------------------
(* AsyncLLM.chat and AsyncLLM.struct *)

MaxInvocations == 5
NumLlmTexts == 2

\* max_retries = 3
max_retries == 3

\* What one call to the external model gives: a text 1, 2, ..., or LlmFail
\* when it raises an exception
LlmFail == 0
LlmOutcomes == {LlmFail} \cup (1..NumLlmTexts)

\* No invocation has been made. calls: the outcomes of the calls made to the
\* external model by the invocation; n: the number of invocations made
NoCall ==
    [op |-> "none", pc |-> "idle", attempt |-> 0, calls |-> <<>>, ret |-> None,
     raised |-> FALSE, n |-> 0]

LlmAfterCallFour(l, out) ==
    LET made == [l EXCEPT !.calls = Append(@, out)]
    IN  IF out # LlmFail THEN [made EXCEPT !.pc = "idle", !.ret = Some(out)]
        ELSE IF l.attempt = max_retries THEN [made EXCEPT !.pc = "idle", !.raised = TRUE]
        ELSE [made EXCEPT !.pc = "sleep"]

\* One pass of the loop body: the call returned out. A text is returned at
\* once; an exception is re-raised in the last attempt, else the backoff follows
LlmAfterCall(l, out) ==
    LET made == [l EXCEPT !.calls = Append(@, out)]
    IN  IF out # LlmFail THEN [made EXCEPT !.pc = "idle", !.ret = Some(out)]
        ELSE IF l.attempt = max_retries - 1
             THEN [made EXCEPT !.pc = "idle", !.raised = TRUE]
        ELSE [made EXCEPT !.pc = "sleep"]

\* chat(messages) or struct(messages, out_model) is invoked: attempt = 0
LlmInvoke(op) ==
    /\ llm.pc = "idle" /\ llm.n < MaxInvocations
    /\ llm' = [op |-> op, pc |-> "call", attempt |-> 0, calls |-> <<>>, ret |-> None,
               raised |-> FALSE, n |-> llm.n + 1]
    /\ UNCHANGED <<cacheVars, cacheHist, sessVars, turnVars, sqlVars, taskVars,
                   histVars, ghostVars, svcVars>>

\* resp = await self._client...create(...) / parse(...)
LlmCall ==
    /\ llm.pc = "call"
    /\ \E out \in LlmOutcomes : llm' = LlmAfterCall(llm, out)
    /\ UNCHANGED <<cacheVars, cacheHist, sessVars, turnVars, sqlVars, taskVars,
                   histVars, ghostVars, svcVars>>

\* await asyncio.sleep(2 ** attempt), then the next attempt
LlmBackoff ==
    /\ llm.pc = "sleep"
    /\ llm' = [llm EXCEPT !.pc = "call", !.attempt = @ + 1]
    /\ UNCHANGED <<cacheVars, cacheHist, sessVars, turnVars, sqlVars, taskVars,
                   histVars, ghostVars, svcVars>>

----------------------------------------------------------------------------
(* The image task: _run_python_image_async *)

NoTask ==
    [pc |-> "none", src |-> None, image_file |-> None, code_file |-> None, turn |-> 0,
     status |-> "none", runs |-> 0]

NewImgTaskPrevTable(src, t) ==
    [pc |-> "upload", src |-> artefacts.data_file, image_file |-> None,
     code_file |-> None, turn |-> t, status |-> "none", runs |-> 0]

\* _run_python_image_async(request, data_sample, data_filename), not yet started
NewImgTask(src, t) ==
    [pc |-> "upload", src |-> src, image_file |-> None, code_file |-> None, turn |-> t,
     status |-> "none", runs |-> 0]

RunningPcs == {"upload", "instr", "run", "extract", "write_image", "filter", "write_code"}

\* run.status when create_and_poll returns; "expired" stands for every status
\* other than completed, failed and cancelled
RunStatuses == {"completed", "failed", "cancelled", "expired"}

WaitForRunRetry(status) ==
    IF status = "completed" THEN "extract"
    ELSE IF status \in {"failed", "cancelled"} THEN "upload"
    ELSE "hung"

\* _wait_for_run_sync: where the wait ends for a run of this status
WaitForRun(status) ==
    IF status = "completed" THEN "extract"
    ELSE IF status \in {"failed", "cancelled"} THEN "failed"
    ELSE "hung"

\* One step of the image task: the task and fs.counter after it. ok: the external
\* call of the step (upload, model call, thread run, download, file write) succeeded.
ImgAdvance(t, cnt, ok, status) ==
    IF ~ok THEN [task |-> [t EXCEPT !.pc = "failed"], counter |-> cnt]
    ELSE IF t.pc = "upload"
    THEN [task |-> [t EXCEPT !.pc = IF t.src = None THEN "failed" ELSE "instr"],
          counter |-> cnt]
    ELSE IF t.pc = "instr"
    THEN [task |-> [t EXCEPT !.pc = "run"], counter |-> cnt]
    ELSE IF t.pc = "run"
    THEN [task |-> [t EXCEPT !.pc = WaitForRun(status), !.status = status,
                             !.runs = @ + 1],
          counter |-> cnt]
    ELSE IF t.pc = "extract"
    THEN [task |-> [t EXCEPT !.pc = "write_image", !.image_file = Some(cnt.image)],
          counter |-> cnt]
    ELSE IF t.pc = "write_image"
    THEN [task |-> [t EXCEPT !.pc = "filter"],
          counter |-> [cnt EXCEPT !.image = @ + 1]]
    ELSE IF t.pc = "filter"
    THEN [task |-> [t EXCEPT !.pc = "write_code", !.code_file = Some(cnt.code)],
          counter |-> cnt]
    ELSE [task |-> [t EXCEPT !.pc = "done"],
          counter |-> [cnt EXCEPT !.code = @ + 1]]

\* handles after a step of an image task took fs.counter from cnt to new: the
\* store call that returned adds the handle it returned
RecordStore(h, cnt, new, t) ==
    IF new.image # cnt.image THEN [h EXCEPT !.image = Append(@, t.image_file[1])]
    ELSE IF new.code # cnt.code THEN [h EXCEPT !.code = Append(@, t.code_file[1])]
    ELSE h

----------------------------------------------------------------------------
(* ImprovedAgentChat.execute *)

NoSqlResult == [sql_query |-> EmptyText, df |-> None, data_path |-> None, ok |-> FALSE]

AgentInit ==
    /\ history = <<>>
    /\ context = InitContext
    /\ artefacts = NoArtefacts
    /\ metrics = NoMetrics
    /\ counter = [data |-> 0, image |-> 0, code |-> 0]
    /\ pc = "idle" /\ turn = 0 /\ cache_key = <<0, 0>>
    /\ cls = None /\ plan = None /\ reply = "none" /\ ret = NoRet
    /\ attempt = 0 /\ base_query = EmptyText /\ sql_cur = EmptyText
    /\ sql_result = NoSqlResult
    /\ ans = "none" /\ img = NoTask /\ orphan = NoTask /\ orphanAns = FALSE
    /\ sqlLog = <<>> /\ branches = {} /\ merges = 0
    /\ hist0 = <<>> /\ ctx0 = InitContext /\ art0 = NoArtefacts
    /\ cnt0 = [data |-> 0, image |-> 0, code |-> 0]
    /\ swallowed = {}
    /\ handles = [data |-> <<>>, image |-> <<>>, code |-> <<>>]
    /\ llm = NoCall

\* An exception e reaches execute's except Exception: the apology is returned
Raise(e) == pc' = "idle" /\ ret' = ErrorResult(e)

\* execute(user_message), up to its first await: the cache lookup
Execute(m) ==
    /\ pc = "idle" /\ turn < MaxTurns
    /\ LET key == CacheKey(m, context)
           g == CacheGetResult(cache, access_order, key)
       IN  /\ cache_key' = key
           /\ access_order' = g.order
           /\ IF g.err # "none" THEN Raise(g.err)
              ELSE IF g.ret # None
                   THEN pc' = "idle" /\ ret' = CachedResult(g.ret[1])
                   ELSE pc' = "translate" /\ ret' = NoRet
    /\ turn' = turn + 1
    /\ cls' = None /\ plan' = None /\ reply' = "none"
    /\ attempt' = 0 /\ base_query' = EmptyText /\ sql_cur' = EmptyText
    /\ sql_result' = NoSqlResult
    /\ ans' = "none" /\ img' = NoTask
    /\ sqlLog' = <<>> /\ branches' = {} /\ merges' = 0
    /\ hist0' = history /\ ctx0' = context /\ art0' = artefacts /\ cnt0' = counter
    /\ swallowed' = {}
    /\ UNCHANGED <<cache, max_size, cacheHist, sessVars, orphan, orphanAns, logOn,
                   handles, llmVars, svcVars>>

\* user_en = await self._translate(user_message, spanish -> english)
Translate ==
    /\ pc = "translate"
    /\ \E ok \in BOOLEAN : IF ok THEN pc' = "to_request" /\ UNCHANGED ret ELSE Raise("translate")
    /\ UNCHANGED <<cacheVars, cacheHist, sessVars, turn, cache_key, cls, plan, reply,
                   sqlVars, taskVars, histVars,
                   ghostVars, llmVars, svcVars>>

\* request = await self._to_request(user_en)
ToRequest ==
    /\ pc = "to_request"
    /\ \E ok \in BOOLEAN : IF ok THEN pc' = "classify" /\ UNCHANGED ret ELSE Raise("to_request")
    /\ UNCHANGED <<cacheVars, cacheHist, sessVars, turn, cache_key, cls, plan, reply,
                   sqlVars, taskVars, histVars,
                   ghostVars, llmVars, svcVars>>

\* classification = await self._classify(request), and the routing on it; on
\* the good flow, _good_flow_async appends the request to the history
Classify ==
    /\ pc = "classify"
    /\ \E ok, on, cs \in BOOLEAN :
          LET c == [is_on_topic |-> on, is_context_sufficient |-> cs]
          IN  IF ~ok THEN Raise("classify") /\ UNCHANGED <<cls, history>>
              ELSE /\ cls' = Some(c)
                   /\ UNCHANGED ret
                   /\ IF IsBadFlow(c)
                      THEN pc' = "bad_flow" /\ UNCHANGED history
                      ELSE /\ pc' = "get_actions"
                           /\ history' = Append(history, UserEntry(turn))
    /\ UNCHANGED <<cacheVars, cacheHist, context, artefacts, metrics, counter,
                   turn, cache_key, plan, reply, sqlVars, taskVars, histVars,
                   ghostVars, llmVars, svcVars>>

\* reply_en = await self._bad_flow(request, reason)
BadFlow ==
    /\ pc = "bad_flow"
    /\ \E ok \in BOOLEAN :
          IF ok THEN pc' = "bad_translate" /\ reply' = BadReason(cls[1]) /\ UNCHANGED ret
          ELSE Raise("bad_flow") /\ UNCHANGED reply
    /\ UNCHANGED <<cacheVars, cacheHist, sessVars, turn, cache_key, cls, plan,
                   sqlVars, taskVars, histVars,
                   ghostVars, llmVars, svcVars>>

\* response_es = await self._translate(reply_en, english -> spanish); return
BadTranslate ==
    /\ pc = "bad_translate"
    /\ \E ok \in BOOLEAN :
          IF ok THEN pc' = "idle" /\ ret' = BadResult(turn, BadReason(cls[1]))
          ELSE Raise("translate")
    /\ UNCHANGED <<cacheVars, cacheHist, sessVars, turn, cache_key, cls, plan, reply,
                   sqlVars, taskVars, histVars,
                   ghostVars, llmVars, svcVars>>

\* sqlLog with field f of the running attempt's entry set to v
LogSet(log, f, v) == IF logOn THEN [log EXCEPT ![Len(log)][f] = v] ELSE log

\* sqlLog with an entry for an attempt that begins
LogAttempt(log) ==
    IF logOn
    THEN Append(log, [question |-> FALSE, feedback |-> None, sql |-> None,
                      result |-> "none", stored |-> "none"])
    ELSE log

\* _supervised_sql_async is entered: base_query = "", the first attempt begins
SqlEnter ==
    /\ pc' = "sql_question"
    /\ base_query' = EmptyText
    /\ attempt' = 1
    /\ metrics' = [metrics EXCEPT !.sql_attempts = 1]
    /\ sqlLog' = LogAttempt(<<>>)

FeedbackNever(previous_query) == None

\* _single_sql_round_async: the previous query given to the model as feedback
Feedback(previous_query) ==
    IF previous_query = EmptyText THEN None ELSE Some(previous_query)

NextAttemptOneMore(log) ==
    IF attempt = MAX_SQL_RETRIES + 1
    THEN /\ pc' = "sql_returned"
         /\ sql_result' = NoSqlResult
         /\ sqlLog' = log
         /\ UNCHANGED <<attempt, metrics>>
    ELSE /\ pc' = "sql_question"
         /\ attempt' = attempt + 1
         /\ metrics' = [metrics EXCEPT !.sql_attempts = attempt + 1]
         /\ sqlLog' = LogAttempt(log)
         /\ UNCHANGED sql_result

\* _supervised_sql_async: the loop goes to its next attempt, or ends and
\* returns ("", empty table, None, False)
NextAttempt(log) ==
    IF attempt = MAX_SQL_RETRIES
    THEN /\ pc' = "sql_returned"
         /\ sql_result' = NoSqlResult
         /\ sqlLog' = log
         /\ UNCHANGED <<attempt, metrics>>
    ELSE /\ pc' = "sql_question"
         /\ attempt' = attempt + 1
         /\ metrics' = [metrics EXCEPT !.sql_attempts = attempt + 1]
         /\ sqlLog' = LogAttempt(log)
         /\ UNCHANGED sql_result

\* actions = await self._get_actions(request), and the dispatch to a branch up
\* to the branch's first await
GetActions ==
    /\ pc = "get_actions"
    /\ \E ok, sql, image \in BOOLEAN :
          LET a == [is_new_sql_query_needed |-> sql, is_new_image_needed |-> image]
              b == BranchOf(a)
          IN  IF ~ok
              THEN Raise("get_actions")
                   /\ UNCHANGED <<plan, branches, img, attempt, base_query,
                                  metrics, sqlLog>>
              ELSE /\ plan' = Some(a)
                   /\ branches' = branches \cup {b}
                   /\ IF b = "answer_only"
                      THEN \* df.to_string on data None raises AttributeError
                           /\ IF NoTable(artefacts) THEN Raise("AttributeError")
                              ELSE pc' = "answer_only" /\ UNCHANGED ret
                           /\ UNCHANGED <<img, attempt, base_query, metrics, sqlLog>>
                      ELSE IF b = "image_only"
                      THEN \* data.head on data None raises AttributeError
                           /\ IF NoTable(artefacts)
                              THEN Raise("AttributeError") /\ UNCHANGED img
                              ELSE /\ pc' = "image_only" /\ UNCHANGED ret
                                   /\ img' = NewImgTask(artefacts.data_file, turn)
                           /\ UNCHANGED <<attempt, base_query, metrics, sqlLog>>
                      ELSE SqlEnter /\ UNCHANGED <<ret, img>>
    /\ UNCHANGED <<cacheVars, cacheHist, history, context, artefacts, counter,
                   turn, cache_key, cls, reply, sql_cur, sql_result,
                   ans, orphan, orphanAns, logOn, merges, hist0, ctx0, art0, cnt0,
                   ghostVars, llmVars, svcVars>>

----------------------------------------------------------------------------
(* The SQL retrieval pipeline: _supervised_sql_async, _single_sql_round_async *)

\* simple_q = await self.llm.chat(...)
SqlQuestion ==
    /\ pc = "sql_question"
    /\ \E ok \in BOOLEAN :
          IF ok
          THEN /\ pc' = "sql_draft"
               /\ sqlLog' = LogSet(sqlLog, "question", TRUE)
               /\ UNCHANGED <<attempt, metrics, sql_result, swallowed>>
          ELSE NextAttempt(sqlLog) /\ swallowed' = swallowed \cup {"model"}
    /\ UNCHANGED <<cacheVars, cacheHist, history, context, artefacts, counter,
                   turn, cache_key, cls, plan, reply, ret, base_query, sql_cur,
                   taskVars, logOn, branches, merges, hist0, ctx0, art0, cnt0,
                   handles, llmVars, svcVars>>

\* sql_query = await self.llm.chat(...), with the previous query as feedback
SqlDraft ==
    /\ pc = "sql_draft"
    /\ \E ok \in BOOLEAN, s \in SqlTexts :
          IF ok
          THEN /\ pc' = "sql_exec"
               /\ sql_cur' = s
               /\ sqlLog' = LogSet(LogSet(sqlLog, "sql", Some(s)),
                                   "feedback", Feedback(base_query))
               /\ UNCHANGED <<attempt, metrics, sql_result, swallowed>>
          ELSE /\ NextAttempt(sqlLog) /\ UNCHANGED sql_cur
               /\ swallowed' = swallowed \cup {"model"}
    /\ UNCHANGED <<cacheVars, cacheHist, history, context, artefacts, counter,
                   turn, cache_key, cls, plan, reply, ret, base_query,
                   taskVars, logOn, branches, merges, hist0, ctx0, art0, cnt0,
                   handles, llmVars, svcVars>>

\* pd.read_sql_query in the executor; an exception gives an empty table. Back
\* in _supervised_sql_async an empty table becomes the feedback of the next attempt.
SqlExec ==
    /\ pc = "sql_exec"
    /\ \E res \in {"rows", "empty", "error"} :
          /\ sql_cur = EmptyText => res = "error"
          /\ IF res = "rows"
             THEN /\ pc' = "sql_store"
                  /\ sqlLog' = LogSet(sqlLog, "result", res)
                  /\ UNCHANGED <<attempt, metrics, sql_result, base_query>>
             ELSE /\ base_query' = sql_cur
                  /\ NextAttempt(LogSet(sqlLog, "result", res))
    /\ UNCHANGED <<cacheVars, cacheHist, history, context, artefacts, counter,
                   turn, cache_key, cls, plan, reply, ret, sql_cur,
                   taskVars, logOn, branches, merges, hist0, ctx0, art0, cnt0,
                   ghostVars, llmVars, svcVars>>

\* data_path = await self.fs.save_dataframe(df); return sql_query, df, data_path, True.
\* An I/O error is caught by the attempt's except Exception.
SqlStore ==
    /\ pc = "sql_store"
    /\ \E ok \in BOOLEAN :
          IF ok
          THEN /\ pc' = "sql_returned"
               /\ counter' = [counter EXCEPT !.data = @ + 1]
               /\ sql_result' = [sql_query |-> sql_cur,
                                 df |-> Some([turn |-> turn, attempt |-> attempt]),
                                 data_path |-> Some(counter.data), ok |-> TRUE]
               /\ sqlLog' = LogSet(sqlLog, "stored", "ok")
               /\ handles' = [handles EXCEPT !.data = Append(@, counter.data)]
               /\ UNCHANGED <<attempt, metrics, swallowed>>
          ELSE /\ NextAttempt(LogSet(sqlLog, "stored", "failed"))
               /\ swallowed' = swallowed \cup {"io"}
               /\ UNCHANGED <<counter, handles>>
    /\ UNCHANGED <<cacheVars, cacheHist, history, context, artefacts,
                   turn, cache_key, cls, plan, reply, ret, base_query, sql_cur,
                   taskVars, logOn, branches, merges, hist0, ctx0, art0, cnt0,
                   llmVars, svcVars>>

----------------------------------------------------------------------------
(* The branches of _good_flow_async *)

RetrievalFailedNever(r) == FALSE

\* _data_refresh_branch_async: if not ok
RetrievalFailed(r) == ~r.ok

\* _data_refresh_branch_async, from the pipeline's return to the branch's next
\* await: sql_time is set; on failure the fixed message is returned and execute
\* appends it to the history; on success the tasks are created
DataRefreshAfterSql ==
    /\ pc = "sql_returned"
    /\ metrics' = [metrics EXCEPT !.sql_time = Some(turn)]
    /\ attempt' = 0 /\ base_query' = EmptyText /\ sql_cur' = EmptyText
    /\ sqlLog' = <<>>
    /\ IF RetrievalFailed(sql_result)
       THEN /\ reply' = "retrieval_failed"
            /\ history' = Append(history, AssistantEntry(turn, "retrieval_failed"))
            /\ pc' = "update_context"
            /\ UNCHANGED <<ans, img>>
       ELSE /\ ans' = "pending"
            /\ IF plan[1].is_new_image_needed
               THEN pc' = "gather" /\ img' = NewImgTask(sql_result.data_path, turn)
               ELSE pc' = "await_answer" /\ UNCHANGED img
            /\ UNCHANGED <<reply, history>>
    /\ UNCHANGED <<cacheVars, cacheHist, context, artefacts, counter,
                   turn, cache_key, cls, plan, ret, sql_result, orphan, orphanAns,
                   logOn, branches, merges, hist0, ctx0, art0, cnt0,
                   ghostVars, llmVars, svcVars>>

\* _answer_only_branch: the final answer, then the merge of {"answer"}
AnswerOnly ==
    /\ pc = "answer_only"
    /\ \E ok \in BOOLEAN :
          IF ok
          THEN /\ artefacts' = Merge(artefacts, AnswerItems(turn))
               /\ merges' = merges + 1
               /\ reply' = "final_answer"
               /\ pc' = "summarise" /\ UNCHANGED ret
          ELSE Raise("final_answer") /\ UNCHANGED <<artefacts, merges, reply>>
    /\ UNCHANGED <<cacheVars, cacheHist, history, context, metrics, counter,
                   turn, cache_key, cls, plan, sqlVars, taskVars,
                   logOn, sqlLog, branches, hist0, ctx0, art0, cnt0,
                   ghostVars, llmVars, svcVars>>

\* _data_refresh_branch_async without image: final_answer = await answer_task,
\* then the merge of art_dict
AwaitAnswer ==
    /\ pc = "await_answer"
    /\ \E ok \in BOOLEAN :
          IF ok
          THEN /\ ans' = "done"
               /\ artefacts' = Merge(artefacts,
                    RefreshItems(sql_result, img, plan[1].is_new_image_needed))
               /\ merges' = merges + 1
               /\ reply' = "final_answer"
               /\ pc' = "summarise" /\ UNCHANGED ret
          ELSE ans' = "failed" /\ Raise("final_answer") /\ UNCHANGED <<artefacts, merges, reply>>
    /\ UNCHANGED <<cacheVars, cacheHist, history, context, metrics, counter,
                   turn, cache_key, cls, plan, sqlVars, img, orphan, orphanAns,
                   logOn, sqlLog, branches, hist0, ctx0, art0, cnt0,
                   ghostVars, llmVars, svcVars>>

\* The final-answer task under asyncio.gather ends
AnsFinish ==
    /\ pc = "gather" /\ ans = "pending"
    /\ \E ok \in BOOLEAN : ans' = IF ok THEN "done" ELSE "failed"
    /\ UNCHANGED <<cacheVars, cacheHist, sessVars, turnVars, sqlVars,
                   img, orphan, orphanAns, histVars,
                   ghostVars, llmVars, svcVars>>

\* One step of this turn's image task
ImgStep ==
    /\ pc \in {"gather", "image_only"} /\ img.pc \in RunningPcs
    /\ \E ok \in BOOLEAN, status \in RunStatuses :
          LET r == ImgAdvance(img, counter, ok, status)
          IN  /\ img' = r.task /\ counter' = r.counter
              /\ handles' = RecordStore(handles, counter, r.counter, img)
    /\ UNCHANGED <<cacheVars, cacheHist, history, context, artefacts, metrics,
                   turnVars, sqlVars, ans, orphan, orphanAns, histVars,
                   swallowed, llmVars, svcVars>>

\* asyncio.gather returned both results: image_time is set, art_dict gets the
\* image items and is merged
GatherDone ==
    /\ pc = "gather" /\ ans = "done" /\ img.pc = "done"
    /\ metrics' = [metrics EXCEPT !.image_time = Some(turn)]
    /\ artefacts' = Merge(artefacts,
         RefreshItems(sql_result, img, plan[1].is_new_image_needed))
    /\ merges' = merges + 1
    /\ reply' = "final_answer"
    /\ pc' = "summarise"
    /\ UNCHANGED <<cacheVars, cacheHist, history, context, counter,
                   turn, cache_key, cls, plan, ret, sqlVars, taskVars,
                   logOn, sqlLog, branches, hist0, ctx0, art0, cnt0,
                   ghostVars, llmVars, svcVars>>

\* asyncio.gather raises the first exception of its tasks; the other task is
\* not cancelled and keeps running after execute has returned the apology
GatherRaise ==
    /\ pc = "gather" /\ (ans = "failed" \/ img.pc = "failed")
    /\ img.pc \in RunningPcs => orphan.pc \notin RunningPcs
    /\ \E e \in {"final_answer", "image"} :
          /\ e = "final_answer" => ans = "failed"
          /\ e = "image" => img.pc = "failed"
          /\ Raise(e)
    /\ IF img.pc \in RunningPcs THEN orphan' = img /\ img' = NoTask
       ELSE UNCHANGED <<orphan, img>>
    /\ orphanAns' = (orphanAns \/ ans = "pending")
    /\ UNCHANGED <<cacheVars, cacheHist, sessVars, turn, cache_key, cls, plan, reply,
                   sqlVars, ans, histVars,
                   ghostVars, llmVars, svcVars>>

\* _image_only_branch_async: the image task returned; art_dict is merged
ImageOnlyDone ==
    /\ pc = "image_only" /\ img.pc = "done"
    /\ artefacts' = Merge(artefacts, ImageItems(img))
    /\ merges' = merges + 1
    /\ reply' = "image_updated"
    /\ pc' = "summarise"
    /\ UNCHANGED <<cacheVars, cacheHist, history, context, metrics, counter,
                   turn, cache_key, cls, plan, ret, sqlVars, taskVars,
                   logOn, sqlLog, branches, hist0, ctx0, art0, cnt0,
                   ghostVars, llmVars, svcVars>>

\* _image_only_branch_async: the image task raised
ImageOnlyRaise ==
    /\ pc = "image_only" /\ img.pc = "failed"
    /\ Raise("image")
    /\ UNCHANGED <<cacheVars, cacheHist, sessVars, turn, cache_key, cls, plan, reply,
                   sqlVars, taskVars, histVars,
                   ghostVars, llmVars, svcVars>>

\* An image task left behind by a returned turn takes a step
OrphanStep ==
    /\ orphan.pc \in RunningPcs
    /\ \E ok \in BOOLEAN, status \in RunStatuses :
          LET r == ImgAdvance(orphan, counter, ok, status)
          IN  /\ orphan' = r.task /\ counter' = r.counter
              /\ handles' = RecordStore(handles, counter, r.counter, orphan)
    /\ UNCHANGED <<cacheVars, cacheHist, history, context, artefacts, metrics,
                   turnVars, sqlVars, ans, img, orphanAns, histVars,
                   swallowed, llmVars, svcVars>>

\* A final-answer task left behind by a returned turn ends
OrphanAnsFinish ==
    /\ orphanAns
    /\ orphanAns' = FALSE
    /\ UNCHANGED <<cacheVars, cacheHist, sessVars, turnVars, sqlVars,
                   ans, img, orphan, histVars,
                   ghostVars, llmVars, svcVars>>

----------------------------------------------------------------------------
(* execute, after the good flow *)

\* _record_artefacts_async: summary = await self._summarise_interaction(...);
\* back in execute the reply is appended to the history
Summarise ==
    /\ pc = "summarise"
    /\ \E ok \in BOOLEAN :
          IF ok
          THEN /\ history' = Append(history, AssistantEntry(turn, reply))
               /\ pc' = "update_context" /\ UNCHANGED ret
          ELSE Raise("summarise") /\ UNCHANGED history
    /\ UNCHANGED <<cacheVars, cacheHist, context, artefacts, metrics, counter,
                   turn, cache_key, cls, plan, reply, sqlVars, taskVars, histVars,
                   ghostVars, llmVars, svcVars>>

\* await self._update_context(interaction_summary)
UpdateContext ==
    /\ pc = "update_context"
    /\ \E ok \in BOOLEAN, c \in Contexts :
          IF ok THEN context' = c /\ pc' = "translate_out" /\ UNCHANGED ret
          ELSE Raise("update_context") /\ UNCHANGED context
    /\ UNCHANGED <<cacheVars, cacheHist, history, artefacts, metrics, counter,
                   turn, cache_key, cls, plan, reply, sqlVars, taskVars, histVars,
                   ghostVars, llmVars, svcVars>>

\* response_es = await self._translate(reply_en, english -> spanish);
\* self.cache.set(cache_key, ...); return response_es, metrics
TranslateOut ==
    /\ pc = "translate_out"
    /\ \E ok \in BOOLEAN :
          LET r == CacheSetResult(cache, access_order, max_size, cache_key,
                                  [response |-> Resp(turn, reply)])
          IN  IF ~ok THEN Raise("translate") /\ UNCHANGED <<cache, access_order>>
              ELSE /\ cache' = r.cache
                   /\ access_order' = r.order
                   /\ pc' = "idle"
                   /\ ret' = IF r.err = "none" THEN GoodResult(turn, reply, metrics)
                             ELSE ErrorResult(r.err)
    /\ UNCHANGED <<max_size, cacheHist, sessVars, turn, cache_key, cls, plan, reply,
                   sqlVars, taskVars, histVars,
                   ghostVars, llmVars, svcVars>>

----------------------------------------------------------------------------
(* fastapi_microservice: the session registry and its endpoints *)

(* Bounds of the registry model *)
MaxIssued == 103
NumSids == 3

\* "keep last 100": the number of sessions the cleanup keeps
SessionsKept == 100

\* The session ids the clients send: each is unknown until uuid4 gives it out
Sids == 1..NumSids

FileTypes == {"data", "image", "code", "other"}

NoHttp ==
    [op |-> "none", sid |-> None, status |-> 0, ret |-> 0, before |-> <<>>,
     removed |-> <<>>]

KnownAlways(s, sid) == TRUE

\* session_id in sessions
Known(s, sid) == sid \in Range(s)

OldestSessionsNewest(s) == SubSeq(s, SessionsKept + 1, Len(s))

\* list(sessions.keys())[:-100]
OldestSessions(s) == SubSeq(s, 1, Len(s) - SessionsKept)

\* del sessions[id] for each id of old
DelSessions(s, old) == SelectSeq(s, LAMBDA x : x \notin Range(old))

NoServed ==
    [n |-> 0, sid |-> None, status |-> 0, out |-> 0, inst |-> 0, seen |-> 0,
     ctx |-> InitContext, key |-> <<0, 0>>, cached |-> FALSE,
     reply |-> [inst |-> 0, turn |-> 0]]

NewAgentFirst(n) ==
    [inst |-> 1, turns |-> 0, context |-> InitContext, cache |-> EmptyDict,
     access_order |-> <<>>]

\* ImprovedAgentChat(...): the n-th instance made, with no turn served, the
\* initial context and a CacheManager of its own
NewAgent(n) ==
    [inst |-> n, turns |-> 0, context |-> InitContext, cache |-> EmptyDict,
     access_order |-> <<>>]

\* The dict without the keys that are not in s
KeepAgents(ags, s) == [id \in DOMAIN ags \cap Range(s) |-> ags[id]]

\* get_or_create_session(session_id) on the dict with keys s and values ags,
\* after n sessions were made; db: db_connection is set, else get_agent
\* raises 503 and the new id is dropped
GetOrCreate(s, ags, n, sid, db) ==
    IF sid # None /\ Known(s, sid[1])
    THEN [status |-> 200, ret |-> sid[1], sessions |-> s, agents |-> ags,
          issued |-> n, removed |-> <<>>]
    ELSE IF ~db
    THEN [status |-> 503, ret |-> 0, sessions |-> s, agents |-> ags,
          issued |-> n, removed |-> <<>>]
    ELSE LET new == n + 1
             added == Append(s, new)
             old == IF Len(added) > SessionsKept
                    THEN OldestSessions(added) ELSE <<>>
             kept == DelSessions(added, old)
         IN  [status |-> 200, ret |-> new, sessions |-> kept,
              agents |-> [id \in Range(kept) |->
                             IF id = new THEN NewAgent(new) ELSE ags[id]],
              issued |-> new, removed |-> old]

RegInit ==
    /\ sessions = <<>> /\ issued = 0 /\ http = NoHttp /\ deleted = {}
    /\ agents = EmptyDict /\ served = NoServed

regFrame ==
    <<cacheVars, cacheHist, sessVars, turnVars, sqlVars, taskVars, histVars,
      ghostVars, llmVars, reqs, steps, served>>

\* A call of get_or_create_session(session_id)
GetOrCreateSession(sid) ==
    /\ \E db \in BOOLEAN :
          LET g == GetOrCreate(sessions, agents, issued, sid, db)
          IN  /\ ~(sid # None /\ Known(sessions, sid[1])) => issued < MaxIssued
              /\ sessions' = g.sessions
              /\ agents' = g.agents
              /\ issued' = g.issued
              /\ http' = [op |-> "get_or_create", sid |-> sid, status |-> g.status,
                          ret |-> g.ret, before |-> sessions, removed |-> g.removed]
    /\ UNCHANGED <<deleted, regFrame>>

\* GET /v1/sessions/{session_id}/artifacts
ListSessionArtifacts(sid) ==
    /\ http' = [op |-> "list", sid |-> Some(sid),
                status |-> IF Known(sessions, sid) THEN 200 ELSE 404,
                ret |-> 0, before |-> sessions, removed |-> <<>>]
    /\ UNCHANGED <<sessions, issued, deleted, agents, regFrame>>

\* GET /v1/download/{file_type}/{session_id}; exists: the session's artefact of
\* this type is set and its file exists
DownloadArtifact(file_type, sid) ==
    /\ \E exists \in BOOLEAN :
          http' = [op |-> "download", sid |-> Some(sid),
                   status |-> IF ~Known(sessions, sid) THEN 404
                              ELSE IF file_type = "other" THEN 400
                              ELSE IF ~exists THEN 404 ELSE 200,
                   ret |-> 0, before |-> sessions, removed |-> <<>>]
    /\ UNCHANGED <<sessions, issued, deleted, agents, regFrame>>

\* DELETE /v1/sessions/{session_id}
DeleteSession(sid) ==
    /\ IF ~Known(sessions, sid)
       THEN /\ http' = [op |-> "delete", sid |-> Some(sid), status |-> 404,
                        ret |-> 0, before |-> sessions, removed |-> <<>>]
            /\ UNCHANGED <<sessions, deleted, agents>>
       ELSE /\ sessions' = DelSessions(sessions, <<sid>>)
            /\ agents' = KeepAgents(agents, DelSessions(sessions, <<sid>>))
            /\ deleted' = deleted \cup {sid}
            /\ http' = [op |-> "delete", sid |-> Some(sid), status |-> 200,
                        ret |-> 0, before |-> sessions, removed |-> <<sid>>]
    /\ UNCHANGED <<issued, regFrame>>

----------------------------------------------------------------------------
(* fastapi_microservice.chat over the sessions: each call finds or creates the
   session of the id it carries and runs one turn of execute on that session's
   agent. The turn is taken whole, by what it does to the agent's cache and
   context: the steps inside it are followed under Spec. *)

(* Bound of the sessions model *)
MaxChats == 3

\* An id no uuid4 call gives out: what a client makes up
ForeignSid == 0

AgentCacheLowest(ags, id) ==
    LET low == CHOOSE i \in DOMAIN ags : \A j \in DOMAIN ags : i <= j
    IN  [cache |-> ags[low].cache, access_order |-> ags[low].access_order]

\* self.cache of the agent sessions[id]
AgentCache(ags, id) ==
    [cache |-> ags[id].cache, access_order |-> ags[id].access_order]

\* chat(request) with request.session_id = sid and request.message = m
Chat(sid, m) ==
    /\ served.n < MaxChats
    /\ \E db \in BOOLEAN :
          LET g == GetOrCreate(sessions, agents, issued, sid, db)
          IN  /\ sessions' = g.sessions
              /\ issued' = g.issued
              /\ http' = [op |-> "get_or_create", sid |-> sid, status |-> g.status,
                          ret |-> g.ret, before |-> sessions, removed |-> g.removed]
              /\ IF g.status # 200
                 THEN /\ served' = [NoServed EXCEPT !.n = served.n + 1, !.sid = sid,
                                                    !.status = 500]
                      /\ agents' = g.agents
                 ELSE LET a == g.agents[g.ret]
                          key == CacheKey(m, a.context)
                          mine == AgentCache(g.agents, g.ret)
                          got == CacheGetResult(mine.cache, mine.access_order, key)
                          done == [n |-> served.n + 1, sid |-> sid, status |-> 200,
                                   out |-> g.ret, inst |-> a.inst, seen |-> a.turns,
                                   ctx |-> a.context, key |-> key,
                                   cached |-> FALSE,
                                   reply |-> [inst |-> a.inst, turn |-> a.turns + 1]]
                      IN  IF got.ret # None
                          THEN /\ served' = [done EXCEPT !.cached = TRUE,
                                                         !.reply = got.ret[1]]
                               /\ agents' = [g.agents EXCEPT ![g.ret] =
                                    [a EXCEPT !.turns = a.turns + 1,
                                              !.access_order = got.order]]
                          ELSE \E flow \in {"good", "bad", "error"}, c \in Contexts :
                                 /\ flow = "bad" => c = a.context
                                 /\ served' = done
                                 /\ agents' = [g.agents EXCEPT ![g.ret] =
                                      IF flow = "good"
                                      THEN LET put == CacheSetResult(mine.cache,
                                                         mine.access_order,
                                                         AgentCacheSize, key, done.reply)
                                           IN  [a EXCEPT !.turns = a.turns + 1,
                                                         !.context = c,
                                                         !.cache = put.cache,
                                                         !.access_order = put.order]
                                      ELSE [a EXCEPT !.turns = a.turns + 1,
                                                     !.context = c]]
    /\ UNCHANGED <<deleted, cacheVars, cacheHist, sessVars, turnVars, sqlVars,
                   taskVars, histVars, ghostVars, llmVars, reqs, steps>>

\* The ids a client can send: none, one a reply gave it, or one it made up
ClientSids == {None} \cup {Some(i) : i \in (1..issued) \cup {ForeignSid}}

----------------------------------------------------------------------------
(* fastapi_microservice.chat: requests in flight on one session. Each request
   awaits execute on the session's agent; a step of a request runs from one
   await of execute to the next. The branch of the good flow is one step, from
   the dispatch to its merge: its own awaits are followed under Spec. *)

(* Bound of the chat model *)
NumReqs == 2

Reqs == 1..NumReqs

\* The session the requests carry the id of
TheSession == 1

NoReq == [pc |-> "none", msg |-> 0, key |-> <<0, 0>>, plan |-> None,
          reply |-> "none", ret |-> NoRet]

ChatInit ==
    /\ reqs = [r \in Reqs |-> NoReq] /\ steps = <<>>

chatFrame ==
    <<max_size, cacheHist, turnVars, sqlVars, taskVars, histVars, ghostVars, llmVars,
      issued, deleted, agents, served>>

\* The request has returned: execute gave ret to the handler
ReqReturn(q, ret_) == [q EXCEPT !.pc = "done", !.ret = ret_]

\* A step of the request that touches the session state is recorded
Stepped(r, kind) == Append(steps, [req |-> r, kind |-> kind])

\* chat(request): get_or_create_session finds the session, then
\* agent.execute(message) up to its first await: the cache lookup
ChatArrive(r, m) ==
    /\ reqs[r].pc = "none" /\ Known(sessions, TheSession)
    /\ \A q \in 1..(r - 1) : reqs[q].pc # "none"
    /\ http' = [op |-> "get_or_create", sid |-> Some(TheSession), status |-> 200,
                ret |-> TheSession, before |-> sessions, removed |-> <<>>]
    /\ LET key == CacheKey(m, context)
           g == CacheGetResult(cache, access_order, key)
           q == [reqs[r] EXCEPT !.msg = m, !.key = key]
       IN  /\ access_order' = g.order
           /\ reqs' = [reqs EXCEPT ![r] =
                 IF g.err # "none" THEN ReqReturn(q, ErrorResult(g.err))
                 ELSE IF g.ret # None THEN ReqReturn(q, CachedResult(g.ret[1]))
                 ELSE [q EXCEPT !.pc = "translate"]]
    /\ UNCHANGED <<cache, sessVars, sessions, steps, chatFrame>>

\* One of the awaits of execute that touch no session state returns: the
\* translation, the normalization, the bad-flow reply
ReqAwait(r, from, to, err) ==
    /\ reqs[r].pc = from
    /\ \E ok \in BOOLEAN :
          reqs' = [reqs EXCEPT ![r] =
              IF ok THEN [@ EXCEPT !.pc = to] ELSE ReqReturn(@, ErrorResult(err))]
    /\ UNCHANGED <<cacheVars, sessVars, sessions, http, steps, chatFrame>>

ReqTranslate(r) == ReqAwait(r, "translate", "to_request", "translate")

ReqToRequest(r) == ReqAwait(r, "to_request", "classify", "to_request")

\* classification = await self._classify(request), and the routing; on the
\* good flow _good_flow_async appends the request to the history
ReqClassify(r) ==
    /\ reqs[r].pc = "classify"
    /\ \E ok, on, cs \in BOOLEAN :
          LET c == [is_on_topic |-> on, is_context_sufficient |-> cs]
          IN  IF ~ok
              THEN /\ reqs' = [reqs EXCEPT ![r] = ReqReturn(@, ErrorResult("classify"))]
                   /\ UNCHANGED <<history, steps>>
              ELSE IF IsBadFlow(c)
              THEN /\ reqs' = [reqs EXCEPT ![r] =
                                  [@ EXCEPT !.pc = "bad_flow", !.reply = BadReason(c)]]
                   /\ UNCHANGED <<history, steps>>
              ELSE /\ reqs' = [reqs EXCEPT ![r] = [@ EXCEPT !.pc = "get_actions"]]
                   /\ history' = Append(history, UserEntry(r))
                   /\ steps' = Stepped(r, "user")
    /\ UNCHANGED <<cacheVars, context, artefacts, metrics, counter, sessions, http,
                   chatFrame>>

ReqBadFlow(r) == ReqAwait(r, "bad_flow", "bad_translate", "bad_flow")

\* response_es = await self._translate(reply_en, ...); return response_es, metrics
ReqBadTranslate(r) ==
    /\ reqs[r].pc = "bad_translate"
    /\ \E ok \in BOOLEAN :
          reqs' = [reqs EXCEPT ![r] =
              IF ok THEN ReqReturn(@, BadResult(r, reqs[r].reply))
              ELSE ReqReturn(@, ErrorResult("translate"))]
    /\ UNCHANGED <<cacheVars, sessVars, sessions, http, steps, chatFrame>>

\* actions = await self._get_actions(request), and the dispatch: answer-only
\* and image-only read artefacts.data, which raises AttributeError on None
ReqGetActions(r) ==
    /\ reqs[r].pc = "get_actions"
    /\ \E ok, sql, image \in BOOLEAN :
          LET a == [is_new_sql_query_needed |-> sql, is_new_image_needed |-> image]
          IN  reqs' = [reqs EXCEPT ![r] =
                  IF ~ok THEN ReqReturn(@, ErrorResult("get_actions"))
                  ELSE IF ~sql /\ NoTable(artefacts)
                  THEN ReqReturn([@ EXCEPT !.plan = Some(a)], ErrorResult("AttributeError"))
                  ELSE [@ EXCEPT !.pc = "branch", !.plan = Some(a)]]
    /\ UNCHANGED <<cacheVars, sessVars, sessions, http, steps, chatFrame>>

\* The table a data-refresh branch of request r retrieved and stored
ReqTable(r, n) ==
    [sql_query |-> 1, df |-> Some([turn |-> r, attempt |-> n]),
     data_path |-> Some(counter.data), ok |-> TRUE]

\* The image task of request r when it has returned
ReqImage(r) ==
    [NoTask EXCEPT !.pc = "done", !.image_file = Some(counter.image),
                   !.code_file = Some(counter.code), !.turn = r]

\* The branch of the good flow, from its dispatch to the merge in
\* _record_artefacts_async. A failed retrieval returns the fixed message, which
\* execute appends to the history at once.
ReqBranch(r) ==
    /\ reqs[r].pc = "branch"
    /\ LET a == reqs[r].plan[1]
           b == BranchOf(a)
       IN  \E ok \in BOOLEAN, n \in 1..MAX_SQL_RETRIES :
              IF ~ok
              THEN /\ reqs' = [reqs EXCEPT ![r] = ReqReturn(@, ErrorResult("final_answer"))]
                   /\ UNCHANGED <<history, artefacts, metrics, counter, steps>>
              ELSE IF b = "answer_only"
              THEN /\ n = 1
                   /\ artefacts' = Merge(artefacts, AnswerItems(r))
                   /\ steps' = Stepped(r, "merge")
                   /\ reqs' = [reqs EXCEPT ![r] =
                                  [@ EXCEPT !.pc = "summarise", !.reply = "final_answer"]]
                   /\ UNCHANGED <<history, metrics, counter>>
              ELSE IF b = "image_only"
              THEN /\ n = 1
                   /\ artefacts' = Merge(artefacts, ImageItems(ReqImage(r)))
                   /\ counter' = [counter EXCEPT !.image = @ + 1, !.code = @ + 1]
                   /\ steps' = Stepped(r, "merge")
                   /\ reqs' = [reqs EXCEPT ![r] =
                                  [@ EXCEPT !.pc = "summarise", !.reply = "image_updated"]]
                   /\ UNCHANGED <<history, metrics>>
              ELSE \E found \in BOOLEAN :
                      IF ~found
                      THEN /\ n = MAX_SQL_RETRIES
                           /\ metrics' = [metrics EXCEPT !.sql_attempts = n,
                                                         !.sql_time = Some(r)]
                           /\ history' = Append(history, AssistantEntry(r, "retrieval_failed"))
                           /\ steps' = Stepped(r, "assistant")
                           /\ reqs' = [reqs EXCEPT ![r] =
                                 [@ EXCEPT !.pc = "update_context",
                                           !.reply = "retrieval_failed"]]
                           /\ UNCHANGED <<artefacts, counter>>
                      ELSE /\ metrics' =
                                 [metrics EXCEPT !.sql_attempts = n, !.sql_time = Some(r),
                                     !.image_time = IF a.is_new_image_needed
                                                    THEN Some(r) ELSE @]
                           /\ artefacts' = Merge(artefacts,
                                 RefreshItems(ReqTable(r, n), ReqImage(r),
                                              a.is_new_image_needed))
                           /\ counter' = IF a.is_new_image_needed
                                         THEN [data |-> counter.data + 1,
                                               image |-> counter.image + 1,
                                               code |-> counter.code + 1]
                                         ELSE [counter EXCEPT !.data = @ + 1]
                           /\ steps' = Stepped(r, "merge")
                           /\ reqs' = [reqs EXCEPT ![r] =
                                 [@ EXCEPT !.pc = "summarise", !.reply = "final_answer"]]
                           /\ UNCHANGED history
    /\ UNCHANGED <<cacheVars, context, sessions, http, chatFrame>>

\* summary = await self._summarise_interaction(...); back in execute the reply
\* is appended to the history
ReqSummarise(r) ==
    /\ reqs[r].pc = "summarise"
    /\ \E ok \in BOOLEAN :
          IF ok
          THEN /\ history' = Append(history, AssistantEntry(r, reqs[r].reply))
               /\ steps' = Stepped(r, "assistant")
               /\ reqs' = [reqs EXCEPT ![r] = [@ EXCEPT !.pc = "update_context"]]
          ELSE /\ reqs' = [reqs EXCEPT ![r] = ReqReturn(@, ErrorResult("summarise"))]
               /\ UNCHANGED <<history, steps>>
    /\ UNCHANGED <<cacheVars, context, artefacts, metrics, counter, sessions, http,
                   chatFrame>>

\* self.context = await self.llm.chat(msgs)
ReqUpdateContext(r) ==
    /\ reqs[r].pc = "update_context"
    /\ \E ok \in BOOLEAN, c \in Contexts :
          IF ok
          THEN /\ context' = c
               /\ steps' = Stepped(r, "context")
               /\ reqs' = [reqs EXCEPT ![r] = [@ EXCEPT !.pc = "translate_out"]]
          ELSE /\ reqs' = [reqs EXCEPT ![r] = ReqReturn(@, ErrorResult("update_context"))]
               /\ UNCHANGED <<context, steps>>
    /\ UNCHANGED <<cacheVars, history, artefacts, metrics, counter, sessions, http,
                   chatFrame>>

\* response_es = await self._translate(reply_en, ...); self.cache.set(cache_key,
\* ...); return response_es, metrics
ReqTranslateOut(r) ==
    /\ reqs[r].pc = "translate_out"
    /\ \E ok \in BOOLEAN :
          LET res == CacheSetResult(cache, access_order, max_size, reqs[r].key,
                                    [response |-> Resp(r, reqs[r].reply)])
          IN  IF ~ok
              THEN /\ reqs' = [reqs EXCEPT ![r] = ReqReturn(@, ErrorResult("translate"))]
                   /\ UNCHANGED <<cache, access_order>>
              ELSE /\ cache' = res.cache
                   /\ access_order' = res.order
                   /\ reqs' = [reqs EXCEPT ![r] =
                         ReqReturn(@, IF res.err = "none"
                                      THEN GoodResult(r, reqs[r].reply, metrics)
                                      ELSE ErrorResult(res.err))]
    /\ UNCHANGED <<sessVars, sessions, http, steps, chatFrame>>

\* The steps of the execute call in progress: each is enabled when the await
\* the call stands at can complete
TurnNext ==
    \/ Translate \/ ToRequest \/ Classify \/ BadFlow \/ BadTranslate \/ GetActions
    \/ SqlQuestion \/ SqlDraft \/ SqlExec \/ SqlStore \/ DataRefreshAfterSql
    \/ AnswerOnly \/ AwaitAnswer \/ AnsFinish \/ ImgStep \/ GatherDone \/ GatherRaise
    \/ ImageOnlyDone \/ ImageOnlyRaise \/ Summarise \/ UpdateContext \/ TranslateOut

Init ==
    /\ max_size = AgentCacheSize
    /\ logOn = FALSE
    /\ CacheInit
    /\ AgentInit
    /\ RegInit
    /\ ChatInit

Next ==
    \/ \E m \in Msgs : Execute(m)
    \/ Translate
    \/ ToRequest
    \/ Classify
    \/ BadFlow
    \/ BadTranslate
    \/ GetActions
    \/ SqlQuestion
    \/ SqlDraft
    \/ SqlExec
    \/ SqlStore
    \/ DataRefreshAfterSql
    \/ AnswerOnly
    \/ AwaitAnswer
    \/ AnsFinish
    \/ ImgStep
    \/ GatherDone
    \/ GatherRaise
    \/ ImageOnlyDone
    \/ ImageOnlyRaise
    \/ OrphanStep
    \/ OrphanAnsFinish
    \/ Summarise
    \/ UpdateContext
    \/ TranslateOut

Spec == Init /\ [][Next]_vars

\* _supervised_sql_async called on its own, as the tests call it
SqlStart ==
    /\ pc \in {"idle", "sql_returned"} /\ turn < MaxTurns
    /\ turn' = turn + 1
    /\ SqlEnter
    /\ sql_cur' = EmptyText /\ sql_result' = NoSqlResult
    /\ cnt0' = counter
    /\ swallowed' = {}
    /\ UNCHANGED <<cacheVars, cacheHist, history, context, artefacts, counter,
                   cache_key, cls, plan, reply, ret, taskVars,
                   logOn, branches, merges, hist0, ctx0, art0,
                   handles, llmVars, svcVars>>

InitSql ==
    /\ max_size = AgentCacheSize
    /\ logOn = TRUE
    /\ CacheInit
    /\ AgentInit
    /\ RegInit
    /\ ChatInit

NextSql ==
    \/ SqlStart
    \/ SqlQuestion
    \/ SqlDraft
    \/ SqlExec
    \/ SqlStore

SpecSql == InitSql /\ [][NextSql]_vars

NextLlm ==
    \/ \E op \in {"chat", "struct"} : LlmInvoke(op)
    \/ LlmCall
    \/ LlmBackoff

SpecLlm == Init /\ [][NextLlm]_vars

CacheNext ==
    \/ \E k \in CacheKeys : CacheGet(k)
    \/ \E k \in CacheKeys, v \in CacheVals : CacheSet(k, v)

InitCache ==
    /\ max_size \in 1..MaxCap
    /\ logOn = FALSE
    /\ CacheInit
    /\ AgentInit
    /\ RegInit
    /\ ChatInit

SpecCache == InitCache /\ [][CacheNext]_vars

NextReg ==
    \/ \E sid \in {None} \cup {Some(i) : i \in Sids} : GetOrCreateSession(sid)
    \/ \E sid \in Sids : ListSessionArtifacts(sid)
    \/ \E ft \in FileTypes, sid \in Sids : DownloadArtifact(ft, sid)
    \/ \E sid \in Sids : DeleteSession(sid)

SpecReg == Init /\ [][NextReg]_vars

NextSess ==
    \/ \E sid \in ClientSids, m \in Msgs : Chat(sid, m)
    \/ \E sid \in 1..issued : DeleteSession(sid)

SpecSess == Init /\ [][NextSess]_vars

\* The session the requests carry the id of was created by an earlier request
InitChat ==
    /\ max_size = AgentCacheSize
    /\ logOn = FALSE
    /\ CacheInit
    /\ AgentInit
    /\ sessions = <<TheSession>> /\ issued = 1 /\ http = NoHttp /\ deleted = {}
    /\ agents = (TheSession :> NewAgent(TheSession)) /\ served = NoServed
    /\ ChatInit

NextChat ==
    \E r \in Reqs :
        \/ \E m \in Msgs : ChatArrive(r, m)
        \/ ReqTranslate(r)
        \/ ReqToRequest(r)
        \/ ReqClassify(r)
        \/ ReqBadFlow(r)
        \/ ReqBadTranslate(r)
        \/ ReqGetActions(r)
        \/ ReqBranch(r)
        \/ ReqSummarise(r)
        \/ ReqUpdateContext(r)
        \/ ReqTranslateOut(r)

SpecChat == InitChat /\ [][NextChat]_vars

----------------------------------------------------------------------------
(* Claims about CacheManager, checked under SpecCache *)

\* C1: a set of a key not in the cache while the cache holds max_size entries
\* removes exactly one entry, the one whose most recent set or successful get
\* is the oldest, and leaves every other entry as it was.
C1_EvictsExactlyLRU ==
    [][(ccall'.op = "set" /\ ccall'.key \notin DOMAIN cache
            /\ Cardinality(DOMAIN cache) = max_size)
        => \E e \in DOMAIN cache :
              /\ \A j \in DOMAIN cache \ {e} : lastAccess[e] < lastAccess[j]
              /\ DOMAIN cache' = (DOMAIN cache \ {e}) \cup {ccall'.key}
              /\ \A j \in DOMAIN cache \ {e} : cache'[j] = cache[j]
              /\ cache'[ccall'.key] = ccall'.val]_vars

\* C1 witness: a set of a new key into a full cache of capacity >= 2 whose
\* entries were reordered by a get evicted an entry.
C1_Witness ==
    /\ ccall.op = "set" /\ ~ccall.present /\ ccall.full
    /\ max_size >= 2 /\ ccall.evicted # {} /\ ccall.evicted \subseteq gotHit

\* C2: after get(k) hits, k is evicted only after every other key that was in
\* the cache at that moment and has not been accessed since.
C2_GetPromotes ==
    [][\A e \in CacheKeys :
          (e \in DOMAIN cache /\ e \notin DOMAIN cache' /\ e \in gotHit)
              => since[e] = {}]_vars

\* C2 witness: a key that a get had promoted past another entry was evicted.
C2_Witness ==
    /\ ccall.op = "set" /\ max_size >= 2
    /\ \E e \in ccall.evicted : e \in gotHit /\ e \notin DOMAIN cache

\* C3: set on a key already in the cache replaces its value, makes it the most
\* recently used key and evicts nothing, also at capacity; get returns the value
\* of the key's latest set, and absent for a key never set or evicted since.
C3_SetExistingAndGet ==
    [][/\ (ccall'.op = "set" /\ ccall'.key \in DOMAIN cache)
            => /\ DOMAIN cache' = DOMAIN cache
               /\ cache'[ccall'.key] = ccall'.val
               /\ \A j \in DOMAIN cache \ {ccall'.key} : cache'[j] = cache[j]
               /\ access_order' # <<>>
               /\ access_order'[Len(access_order')] = ccall'.key
       /\ ccall'.op = "get"
            => ccall'.ret = (IF ccall'.key \in DOMAIN refLive
                             THEN Some(refLive[ccall'.key]) ELSE None)]_vars

\* C3 witness: a set on a key already present in a full cache of capacity >= 2
\* changed the key's value and evicted nothing.
C3_Witness ==
    /\ ccall.op = "set" /\ ccall.present /\ ccall.full /\ max_size >= 2
    /\ ccall.old # Some(ccall.val) /\ ccall.evicted = {}
    /\ \E k \in CacheKeys \ DOMAIN cache : lastAccess[k] # 0

----------------------------------------------------------------------------
(* Claims about the SQL retrieval pipeline, checked under SpecSql *)

\* C4: when attempt k is the first whose query returns rows, no later attempt
\* runs a query, and the pipeline returns success with attempt k's statement,
\* its table, a stored table handle and sql_attempts = k.
C4_FirstRowsAttemptReturns ==
    \A k \in 1..Len(sqlLog) :
        (sqlLog[k].result = "rows" /\ \A j \in 1..(k - 1) : sqlLog[j].result # "rows")
            => /\ \A j \in (k + 1)..Len(sqlLog) : sqlLog[j].result = "none"
               /\ pc = "sql_returned"
                    => /\ sql_result.ok
                       /\ Some(sql_result.sql_query) = sqlLog[k].sql
                       /\ sql_result.df = Some([turn |-> turn, attempt |-> k])
                       /\ sql_result.data_path # None
                       /\ metrics.sql_attempts = k

\* C5: the pipeline makes at most MAX_SQL_RETRIES attempts and is never stuck
\* inside one; it returns failure only after MAX_SQL_RETRIES attempts, and when
\* every one of them got an empty result it returns ("", empty table, None,
\* False) with sql_attempts = MAX_SQL_RETRIES and has stored no table.
C5_AtMostThreeAttempts ==
    /\ attempt <= MAX_SQL_RETRIES
    /\ Len(sqlLog) <= MAX_SQL_RETRIES
    /\ metrics.sql_attempts <= MAX_SQL_RETRIES
    /\ pc \in {"sql_question", "sql_draft", "sql_exec", "sql_store"}
         => /\ attempt \in 1..MAX_SQL_RETRIES
            /\ Len(sqlLog) = attempt
            /\ metrics.sql_attempts = attempt
            /\ ENABLED (SqlQuestion \/ SqlDraft \/ SqlExec \/ SqlStore)
    /\ (pc = "sql_returned" /\ ~sql_result.ok)
         => /\ Len(sqlLog) = MAX_SQL_RETRIES
            /\ metrics.sql_attempts = MAX_SQL_RETRIES
    /\ (pc = "sql_returned" /\ Len(sqlLog) = MAX_SQL_RETRIES
            /\ \A k \in 1..Len(sqlLog) : sqlLog[k].result \in {"empty", "error"})
         => /\ sql_result = [sql_query |-> EmptyText, df |-> None,
                             data_path |-> None, ok |-> FALSE]
            /\ metrics.sql_attempts = MAX_SQL_RETRIES
            /\ counter = cnt0

\* C5 witness: a run that began with a table already stored made three
\* attempts, each query returned no rows, and it returned failure.
C5_Witness ==
    /\ pc = "sql_returned" /\ ~sql_result.ok /\ Len(sqlLog) = MAX_SQL_RETRIES
    /\ \A k \in 1..Len(sqlLog) : sqlLog[k].result = "empty"
    /\ cnt0.data = 1 /\ counter.data = 1

----------------------------------------------------------------------------
(* Claims about execute, checked under Spec *)

\* C6: a classified turn takes the bad flow exactly when it is not both
\* on-topic and context-sufficient; the reason is not_on_topic whenever
\* on-topic is false, also when context-sufficient is false too, and
\* context_not_sufficient only when on-topic is true and context-sufficient false.
C6_BadFlowRouting ==
    cls # None =>
        LET on == cls[1].is_on_topic
            cs == cls[1].is_context_sufficient
            reason == IF ~on THEN "not_on_topic" ELSE "context_not_sufficient"
        IN  /\ ~(on /\ cs)
                 => /\ pc \in {"bad_flow", "bad_translate", "idle"}
                    /\ plan = None /\ branches = {} /\ history = hist0
                    /\ pc = "idle" => ret.flow \in {"bad", "error"}
                    /\ pc = "bad_translate" => reply = reason
                    /\ ret.flow = "bad" => ret.reason = reason
            /\ (on /\ cs)
                 => /\ pc \notin {"bad_flow", "bad_translate"}
                    /\ ret.flow # "bad" /\ ret.error # "bad_flow"
                    /\ reply \notin {"not_on_topic", "context_not_sufficient"}
                    /\ history # hist0
            /\ ret.reason = "context_not_sufficient" => (on /\ ~cs)
            /\ ret.reason = "not_on_topic" => ~on

\* C6 witness: a turn classified neither on-topic nor context-sufficient
\* returned the bad flow with reason not_on_topic.
C6_Witness ==
    /\ pc = "idle" /\ ret.flow = "bad" /\ ret.reason = "not_on_topic"
    /\ cls # None /\ ~cls[1].is_on_topic /\ ~cls[1].is_context_sufficient

\* C7: a turn classified off-topic or context-insufficient leaves history,
\* context and artefacts as they were when it began, and returns flow = bad
\* unless a model call of the bad flow raised.
C7_BadFlowFrame ==
    (cls # None /\ ~(cls[1].is_on_topic /\ cls[1].is_context_sufficient))
        => /\ history = hist0 /\ context = ctx0 /\ artefacts = art0
           /\ pc = "idle"
                => \/ ret.flow = "bad"
                   \/ ret.flow = "error" /\ ret.error \in {"bad_flow", "translate"}

\* C7 witness: a context-insufficient turn that began with a history, an
\* updated context and a table in the artefacts returned the bad flow.
C7_Witness ==
    /\ pc = "idle" /\ ret.flow = "bad" /\ ret.reason = "context_not_sufficient"
    /\ hist0 # <<>> /\ ctx0 # InitContext /\ art0.data # None

\* C8: every turn on the good flow enters exactly one branch, the one its
\* action plan selects: (sql, image) = (F, F) answer-only, (F, T) image-only,
\* (T, T) data-refresh with image, (T, F) data-refresh without image.
C8_OneBranchByPlan ==
    /\ Cardinality(branches) <= 1
    /\ plan = None
         => /\ branches = {}
            /\ pc \notin {"answer_only", "image_only", "sql_question", "sql_draft",
                          "sql_exec", "sql_store", "sql_returned", "await_answer",
                          "gather", "summarise", "update_context", "translate_out"}
            /\ ret.flow # "good"
    /\ plan # None
         => LET s == plan[1].is_new_sql_query_needed
                i == plan[1].is_new_image_needed
            IN  /\ branches = {IF ~s /\ ~i THEN "answer_only"
                               ELSE IF ~s /\ i THEN "image_only"
                               ELSE IF s /\ i THEN "data_refresh_image"
                               ELSE "data_refresh"}
                /\ pc = "answer_only" => (~s /\ ~i)
                /\ pc = "image_only" => (~s /\ i)
                /\ pc \in {"sql_question", "sql_draft", "sql_exec", "sql_store",
                           "sql_returned"} => s
                /\ pc = "await_answer" => (s /\ ~i)
                /\ pc = "gather" => (s /\ i)
                /\ img.pc # "none" => i
                /\ ans # "none" => s
                /\ reply = "image_updated" => (~s /\ i)
                /\ reply = "retrieval_failed" => s
                /\ merges <= 1

\* C8 witness: a turn whose plan asked for a query and an image returned from
\* the data-refresh branch with image.
C8_Witness ==
    /\ pc = "idle" /\ ret.flow = "good" /\ branches = {"data_refresh_image"}
    /\ plan = Some([is_new_sql_query_needed |-> TRUE, is_new_image_needed |-> TRUE])
    /\ img.pc = "done" /\ ans = "done"

\* C9: answer-only leaves sql_query, data, data_file, image_file and code_file
\* as they were; image-only leaves sql_query, data and data_file as they were
\* and replaces image_file and code_file; data-refresh without image leaves
\* image_file and code_file as they were.
C9_LatestWinsFrame ==
    plan # None =>
        LET s == plan[1].is_new_sql_query_needed
            i == plan[1].is_new_image_needed
        IN  /\ (~s /\ ~i)
                 => \A f \in {"sql_query", "data", "data_file", "image_file",
                              "code_file", "image", "code"} : artefacts[f] = art0[f]
            /\ (~s /\ i)
                 => /\ \A f \in {"sql_query", "data", "data_file", "answer"} :
                          artefacts[f] = art0[f]
                    /\ (pc = "idle" /\ ret.flow = "good")
                         => /\ artefacts.image_file = img.image_file
                            /\ artefacts.code_file = img.code_file
                            /\ img.turn = turn
                            /\ artefacts.image_file \notin {None, art0.image_file}
                            /\ artefacts.code_file \notin {None, art0.code_file}
            /\ (s /\ ~i)
                 => \A f \in {"image_file", "code_file", "image", "code"} :
                       artefacts[f] = art0[f]

\* C9 witness: an image-only turn that began with an image in the artefacts
\* returned with a new one.
C9_Witness ==
    /\ pc = "idle" /\ ret.flow = "good"
    /\ plan = Some([is_new_sql_query_needed |-> FALSE, is_new_image_needed |-> TRUE])
    /\ art0.image_file # None /\ art0.code_file # None
    /\ artefacts.image_file # art0.image_file /\ artefacts.data = art0.data

\* C10: in a data-refresh turn with image, sql_query, data, data_file,
\* image_file and code_file are at every moment either all as they were when
\* the turn began or all this turn's values, put there by one merge; while the
\* query or the image is awaited, and when either fails, none has changed.
C10_RefreshWithImageAtomic ==
    (plan # None /\ plan[1].is_new_sql_query_needed /\ plan[1].is_new_image_needed)
        => LET none == \A f \in {"sql_query", "data", "data_file", "image_file",
                                 "code_file"} : artefacts[f] = art0[f]
               all == /\ sql_result.ok /\ img.pc = "done" /\ img.turn = turn
                      /\ artefacts.sql_query = Some(sql_result.sql_query)
                      /\ artefacts.data = sql_result.df
                      /\ artefacts.data_file = sql_result.data_path
                      /\ artefacts.image_file = img.image_file
                      /\ artefacts.code_file = img.code_file
                      /\ \A f \in {"data", "data_file", "image_file", "code_file"} :
                            artefacts[f] \notin {None, art0[f]}
           IN  /\ merges <= 1
               /\ merges = 0 => none
               /\ merges = 1 => all
               /\ pc \in {"sql_question", "sql_draft", "sql_exec", "sql_store",
                          "sql_returned", "gather"} => merges = 0
               /\ (pc = "idle" /\ ret.flow = "error"
                       /\ ret.error \in {"final_answer", "image"}) => merges = 0
               /\ reply = "retrieval_failed" => merges = 0
               /\ (pc = "idle" /\ ret.flow = "good" /\ reply = "final_answer")
                    => merges = 1

\* C10 witness: a data-refresh turn with image that began with a table and an
\* image in the artefacts returned with all five fields replaced.
C10_Witness ==
    /\ pc = "idle" /\ ret.flow = "good" /\ merges = 1
    /\ plan = Some([is_new_sql_query_needed |-> TRUE, is_new_image_needed |-> TRUE])
    /\ art0.data # None /\ art0.image_file # None
    /\ artefacts.data # art0.data /\ artefacts.image_file # art0.image_file

\* C11: once the SQL pipeline of a data-refresh turn has returned failure, the
\* reply is the fixed data-retrieval failure message, no final-answer task and
\* no image task of the turn exists, also when the plan asked for an image, and
\* the artefacts are as they were when the turn began.
C11_RetrievalFailureShortCircuit ==
    (plan # None /\ plan[1].is_new_sql_query_needed /\ ~sql_result.ok
        /\ pc \notin {"sql_question", "sql_draft", "sql_exec", "sql_store", "sql_returned"})
        => /\ reply = "retrieval_failed"
           /\ pc \in {"update_context", "translate_out", "idle"}
           /\ ans = "none" /\ img.pc = "none" /\ orphan.turn # turn
           /\ artefacts = art0 /\ merges = 0
           /\ (pc = "idle" /\ ret.flow = "good")
                => ret.response = Resp(turn, "retrieval_failed")

\* C11 witness: a turn that planned a query and an image, and began with a
\* table in the artefacts, returned the data-retrieval failure message.
C11_Witness ==
    /\ pc = "idle" /\ ret.flow = "good" /\ ret.response.kind = "retrieval_failed"
    /\ plan = Some([is_new_sql_query_needed |-> TRUE, is_new_image_needed |-> TRUE])
    /\ art0.data # None /\ artefacts = art0

\* C12: a turn in which a step raised, be it a model call or a store call of
\* the SQL pipeline, the final-answer task or the image task, returns the fixed
\* apology with error-tagged metrics.
C12_AnyFailureGivesApology ==
    (pc = "idle" /\ (swallowed # {} \/ ans = "failed" \/ img.pc = "failed"))
        => /\ ret.flow = "error"
           /\ ret.response = Apology
           /\ "error" \in ret.keys /\ ret.error # "none"

\* C13: an execute call in progress can always take a further step towards its
\* return: no state is reachable in which the call waits for something that
\* never happens.
C13_CallNeverStuck == pc # "idle" => ENABLED TurnNext

\* C14: a run reported completed takes the image task to the extraction of
\* image and code; a run reported failed or cancelled makes the task raise: it
\* has submitted one run, produced no file, is never started again in the turn,
\* and the turn returns the fixed apology with the artefacts untouched.
C14_RunTerminalStatuses ==
    /\ img.runs <= 1 /\ orphan.runs <= 1
    /\ img.status = "completed"
         => img.pc \in {"extract", "write_image", "filter", "write_code", "done", "failed"}
    /\ img.pc \in {"extract", "write_image", "filter", "write_code", "done"}
         => img.status = "completed"
    /\ orphan.status \in {"failed", "cancelled"} => orphan.pc = "failed"
    /\ img.status \in {"failed", "cancelled"}
         => /\ img.pc = "failed" /\ img.runs = 1
            /\ img.image_file = None /\ img.code_file = None
            /\ pc \in {"gather", "image_only", "idle"}
            /\ artefacts = art0 /\ merges = 0
            /\ pc = "idle"
                 => /\ ret.flow = "error" /\ ret.response = Apology
                    /\ ret.error \in {"image", "final_answer"}

\* C14 witness: an image-only turn whose run was reported cancelled returned
\* the apology.
C14_Witness ==
    /\ pc = "idle" /\ ret.flow = "error" /\ ret.error = "image"
    /\ img.status = "cancelled" /\ img.pc = "failed" /\ img.turn = turn
    /\ plan = Some([is_new_sql_query_needed |-> FALSE, is_new_image_needed |-> TRUE])

\* C15, as stated: when an execute call has returned a reply, of the bad flow
\* as well as of the good flow (the error fallback is left aside), the next
\* execute call with the same cache key is a cache hit and returns that reply.
C15_RepeatAlwaysHits ==
    [][(pc = "idle" /\ turn >= 1 /\ turn' = turn + 1 /\ cache_key' = cache_key
            /\ ret.flow # "error")
          => (ret'.flow = "cached" /\ ret'.response = ret.response)]_vars

\* C15, amended: when an execute call has returned a good-flow or cached reply,
\* the next execute call with the same cache key is a cache hit and returns
\* that reply; a good return stores its reply under the turn's key, a stored
\* entry stays as it is until a good return with its key, and a call whose key
\* is stored returns the stored reply.
C15_RepeatAfterGoodHits ==
    [][/\ (pc = "idle" /\ turn >= 1 /\ turn' = turn + 1 /\ cache_key' = cache_key
              /\ ret.flow \in {"good", "cached"})
            => (pc' = "idle" /\ ret'.flow = "cached" /\ ret'.response = ret.response)
       /\ (turn' = turn + 1 /\ cache_key' \in DOMAIN cache)
            => (pc' = "idle" /\ ret'.flow = "cached"
                  /\ ret'.response = cache[cache_key'].response)
       /\ (pc # "idle" /\ ret'.flow = "good")
            => (cache_key \in DOMAIN cache'
                  /\ cache'[cache_key].response = ret'.response)
       /\ \A k \in DOMAIN cache :
             /\ k \in DOMAIN cache'
             /\ cache'[k] # cache[k] => (k = cache_key /\ ret'.flow = "good")]_vars

\* C15 witness: the second call repeated the key of a first call that had
\* returned a final answer, and returned that answer from the cache.
C15_Witness ==
    /\ pc = "idle" /\ turn = 2 /\ ret.flow = "cached"
    /\ ret.response = Resp(1, "final_answer")
    /\ cache_key \in DOMAIN cache /\ history # <<>>

\* C16: an execute call that hits the cache returns the stored reply with
\* metrics holding only the cached flag and the time; it has classified and
\* planned nothing, started no pipeline and no task, and history, context and
\* artefacts are as they were. A call that goes on to further steps missed.
C16_CacheHitShortCircuit ==
    /\ (pc = "idle" /\ ret.flow = "cached")
         => /\ cache_key \in DOMAIN cache
            /\ ret.response = cache[cache_key].response
            /\ ret.keys = {"cached", "time"}
            /\ ret.sql_time = None /\ ret.image_time = None /\ ret.sql_attempts = None
            /\ history = hist0 /\ context = ctx0 /\ artefacts = art0
            /\ cls = None /\ plan = None /\ reply = "none"
            /\ branches = {} /\ merges = 0 /\ swallowed = {}
            /\ attempt = 0 /\ sql_result = NoSqlResult
            /\ ans = "none" /\ img.pc = "none"
    /\ pc # "idle" => cache_key \notin DOMAIN cache

\* C16 witness: a call hit the cache in a session that holds a table and an
\* image from an earlier turn.
C16_Witness ==
    /\ pc = "idle" /\ ret.flow = "cached" /\ turn = 2
    /\ artefacts.data # None /\ artefacts.image_file # None
    /\ Len(history) = 2

\* C17: for each kind of artefact, the k-th store call of the session that
\* returned has returned the handle numbered k - 1, so no two store calls of a
\* kind have returned the same handle.
C17_HandlesSequentialAndDistinct ==
    \A kind \in {"data", "image", "code"} :
        \A k \in 1..Len(handles[kind]) : handles[kind][k] = k - 1

----------------------------------------------------------------------------
(* Claims about AsyncLLM, checked under SpecLlm *)

\* C18: an invocation of chat or struct makes at most 3 calls to the external
\* model; every call before the last one made has failed; it returns the text
\* of the first call that succeeds, and raises exactly when 3 calls were made
\* and all failed.
C18_AdapterRetry ==
    /\ Len(llm.calls) <= 3
    /\ \A j \in 1..(Len(llm.calls) - 1) : llm.calls[j] = LlmFail
    /\ llm.pc = "call" => (Len(llm.calls) = llm.attempt /\ llm.attempt <= 2)
    /\ llm.pc = "sleep" => (Len(llm.calls) = llm.attempt + 1 /\ llm.attempt <= 1)
    /\ llm.pc # "idle"
         => (llm.ret = None /\ ~llm.raised
               /\ \A j \in 1..Len(llm.calls) : llm.calls[j] = LlmFail)
    /\ (llm.pc = "idle" /\ llm.n > 0)
         => /\ llm.calls # <<>>
            /\ llm.calls[Len(llm.calls)] # LlmFail
                 => (llm.ret = Some(llm.calls[Len(llm.calls)]) /\ ~llm.raised)
            /\ llm.calls[Len(llm.calls)] = LlmFail
                 => (Len(llm.calls) = 3 /\ llm.raised /\ llm.ret = None)

\* C18 witness: a struct invocation whose first two calls failed returned the
\* text of its third call.
C18_Witness ==
    /\ llm.op = "struct" /\ llm.pc = "idle"
    /\ llm.calls = <<LlmFail, LlmFail, 2>> /\ llm.ret = Some(2) /\ ~llm.raised

----------------------------------------------------------------------------
(* Claims about the tasks of a turn, checked under Spec *)

\* C19: when no execute call is in progress, no task started by an earlier
\* call is still running: neither an image task, which would still write files
\* and advance fs.counter, nor a final-answer task.
C19_SubTasksJoined ==
    pc = "idle" => (orphan.pc \notin RunningPcs /\ ~orphanAns)

\* C20: in a data-refresh turn no final-answer task and no image task exists
\* while the SQL pipeline runs; once one exists the pipeline has returned
\* success with a table stored in this turn, and the image task reads that
\* table's file, never the file the artefacts held when the turn began.
C20_SqlBeforeImage ==
    (plan # None /\ plan[1].is_new_sql_query_needed)
        => /\ pc \in {"sql_question", "sql_draft", "sql_exec", "sql_store", "sql_returned"}
                => (ans = "none" /\ img.pc = "none" /\ orphan.turn # turn)
           /\ (ans # "none" \/ img.pc # "none" \/ orphan.turn = turn)
                => /\ sql_result.ok
                   /\ sql_result.df # None /\ sql_result.df[1].turn = turn
                   /\ sql_result.data_path # None
                   /\ sql_result.data_path[1] >= cnt0.data
                   /\ sql_result.data_path[1] \in Range(handles.data)
                   /\ counter.data > cnt0.data
           /\ img.pc # "none"
                => /\ plan[1].is_new_image_needed /\ img.turn = turn
                   /\ img.src = sql_result.data_path
                   /\ img.src # art0.data_file
           /\ orphan.turn = turn => orphan.src = sql_result.data_path

\* C20 witness: in a session that already held a table, the image task of a
\* data-refresh turn reached the run on the table stored in this turn.
C20_Witness ==
    /\ pc = "gather" /\ img.pc = "run" /\ turn = 2
    /\ art0.data_file = Some(0) /\ img.src = Some(1)
    /\ sql_result.ok /\ sql_result.data_path = Some(1)

----------------------------------------------------------------------------
(* Claims about failures inside the SQL pipeline, checked under Spec *)

\* C22: a turn in which a model call of the SQL pipeline (question drafting or
\* SQL drafting) failed after the adapter's retries returns the fixed apology
\* with error-tagged metrics.
C22_ModelFailureGivesApology ==
    (pc = "idle" /\ "model" \in swallowed)
        => /\ ret.flow = "error" /\ ret.response = Apology
           /\ ret.keys = {"error", "session_id"}

\* C23: once the store of a table has failed with an I/O error, the turn is
\* over and has returned the error fallback: the pipeline makes no further
\* attempt and the turn gives no normal reply.
C23_StoreFailureSurfaced ==
    "io" \in swallowed => (pc = "idle" /\ ret.flow = "error")

----------------------------------------------------------------------------
(* Claims about the attempts of the SQL pipeline, checked under SpecSql *)

\* C26: in one run of the SQL pipeline the question drafting is performed once,
\* in the first attempt; an attempt that follows one whose statement returned
\* no rows or raised goes to the SQL drafting and drafts no question.
C26_QuestionDraftedOnce ==
    \A k \in 2..Len(sqlLog) :
        sqlLog[k - 1].result \in {"empty", "error"} => ~sqlLog[k].question

\* C27: the SQL drafting of the first attempt gets no feedback query, and the
\* SQL drafting of every later attempt gets as feedback the SQL text of the
\* attempt just before it.
C27_FeedbackIsPreviousQuery ==
    \A k \in 1..Len(sqlLog) :
        sqlLog[k].sql # None
            => IF k = 1 THEN sqlLog[k].feedback = None
               ELSE sqlLog[k].feedback # None /\ sqlLog[k].feedback = sqlLog[k - 1].sql

\* C28: an attempt whose statement raised when executed is handled as one whose
\* statement returned no rows: nothing is stored, the attempt is used up (after
\* the last one the pipeline returns failure), its statement is the feedback
\* query the next attempt drafts with, and the pipeline goes on.
C28_ExecErrorLikeEmpty ==
    \A k \in 1..Len(sqlLog) :
        sqlLog[k].result \in {"error", "empty"}
            => /\ sqlLog[k].stored = "none" /\ sqlLog[k].sql # None
               /\ k = Len(sqlLog)
                    => (k = MAX_SQL_RETRIES /\ pc = "sql_returned"
                          /\ sql_result = NoSqlResult /\ counter = cnt0)
               /\ k < Len(sqlLog)
                    => /\ attempt >= k + 1
                       /\ sqlLog[k + 1].sql # None
                            => sqlLog[k + 1].feedback =
                                  (IF sqlLog[k].sql[1] = EmptyText THEN None
                                   ELSE sqlLog[k].sql)
               /\ (k = Len(sqlLog) - 1 /\ pc \in {"sql_question", "sql_draft"})
                    => base_query = sqlLog[k].sql[1]

\* C28 witness: the statement of the first attempt raised when executed, and
\* the second attempt drafted its statement with the first one as feedback.
C28_Witness ==
    /\ Len(sqlLog) >= 2 /\ sqlLog[1].result = "error" /\ sqlLog[1].sql = Some(1)
    /\ sqlLog[2].sql # None /\ sqlLog[2].feedback = Some(1)
    /\ pc = "sql_exec" /\ attempt = 2

----------------------------------------------------------------------------
(* Claims about the history, the context and the metrics of a turn, checked
   under Spec *)

\* C30: the metrics returned with a good turn's reply describe that turn only:
\* a turn whose plan asked for no query reports no SQL attempts and no SQL
\* time, and a turn that started no image task reports no image time.
C30_MetricsPerTurn ==
    (pc = "idle" /\ ret.flow = "good")
        => /\ ~plan[1].is_new_sql_query_needed
                => (ret.sql_attempts = Some(0) /\ ret.sql_time = None)
           /\ img.pc = "none" => ret.image_time = None

\* C29: a good turn appends two history entries: the request with role user
\* when the good flow is entered, before the action plan is asked for, and the
\* reply with role assistant after the artefact merge and the interaction
\* summary; the context is updated once per turn, by the step that follows the
\* append of the reply and precedes the final translation.
C29_HistoryAndContext ==
    [][LET u == [role |-> "user", turn |-> turn', kind |-> "request"]
           a == [role |-> "assistant", turn |-> turn', kind |-> reply']
       IN  /\ pc' \in {"translate", "to_request", "classify", "bad_flow", "bad_translate"}
                => (history' = hist0' /\ context' = ctx0')
           /\ pc' \in {"get_actions", "answer_only", "image_only", "sql_question",
                       "sql_draft", "sql_exec", "sql_store", "sql_returned",
                       "await_answer", "gather", "summarise"}
                => (history' = Append(hist0', u) /\ context' = ctx0')
           /\ pc' = "get_actions" => plan' = None
           /\ pc' = "summarise" => merges' = 1
           /\ pc' = "update_context"
                => /\ history' = hist0' \o <<u, a>> /\ context' = ctx0'
                   /\ reply' # "retrieval_failed"
                        => (merges' = 1 /\ pc \in {"summarise", "update_context"})
           /\ (pc' = "translate_out" \/ (pc' = "idle" /\ ret'.flow = "good"))
                => history' = hist0' \o <<u, a>>
           /\ ((pc' = "translate_out" /\ pc # "translate_out") \/ context' # context)
                => (pc = "update_context" /\ pc' = "translate_out"
                      /\ context = ctx0 /\ history' = history)
           /\ (pc = "translate_out" /\ pc' = "idle")
                => (context' = context /\ history' = history)]_vars

\* C29 witness: the second turn of a session gave a final answer; the history
\* grew from two entries to four and the context was replaced.
C29_Witness ==
    /\ pc = "idle" /\ ret.flow = "good" /\ ret.response = Resp(2, "final_answer")
    /\ Len(hist0) = 2 /\ Len(history) = 4 /\ context # ctx0 /\ merges = 1
    /\ history[3].role = "user" /\ history[4].role = "assistant"

----------------------------------------------------------------------------
(* Claims about the requests of one session, checked under SpecChat *)

\* C21: the steps that requests of one session make on the session's state
\* (history appends, artefact merge, context update) do not interleave: between
\* two steps of one request there is no step of another request.
C21_TurnsSerialized ==
    \A i, k \in 1..Len(steps) :
        (i < k /\ steps[i].req = steps[k].req)
            => \A j \in i..k : steps[j].req = steps[i].req

----------------------------------------------------------------------------
(* Claims about the session registry, checked under SpecReg *)

\* C24: the registry never holds more than 100 sessions; a session that
\* get_or_create_session returns is in the registry when the call returns; the
\* call removes sessions only when its new session made the count 101, and
\* then it removes the session created earliest and not the new one.
C24_RegistryBound ==
    /\ Len(sessions) <= 100
    /\ \A i, j \in 1..Len(sessions) : i < j => sessions[i] < sessions[j]
    /\ http.op = "get_or_create"
         => /\ http.status = 200 => http.ret \in Range(sessions)
            /\ http.status # 200 => (sessions = http.before /\ http.removed = <<>>)
            /\ (http.status = 200 /\ http.ret \notin Range(http.before))
                 => /\ http.ret = issued
                    /\ \A x \in Range(http.before) : x < http.ret
                    /\ Range(sessions) \cup Range(http.removed)
                          = Range(http.before) \cup {http.ret}
                    /\ Range(sessions) \cap Range(http.removed) = {}
            /\ http.removed # <<>>
                 => /\ Len(http.before) = 100 /\ Len(sessions) = 100
                    /\ Len(http.removed) = 1
                    /\ http.ret \notin Range(http.removed)
                    /\ \A x \in Range(http.removed), y \in Range(sessions) : x < y

\* C24 witness: the registry was filled again after a deletion, and the
\* session that made it 101 evicted the earliest one.
C24_Witness ==
    /\ http.op = "get_or_create" /\ http.removed = <<1>> /\ http.ret = 102
    /\ deleted = {2} /\ Len(sessions) = 100 /\ sessions[1] = 3

\* C25: list-artifacts, download-artifact and delete-session on a session id
\* that is not in the registry return 404 and leave the registry as it was;
\* delete-session on a registered id removes that session and no other; a
\* deleted id is never in the registry again, so these calls return 404 on it.
C25_UnknownSession ==
    /\ deleted \cap Range(sessions) = {}
    /\ http.op \in {"list", "download", "delete"}
         => LET sid == http.sid[1]
            IN  /\ sid \notin Range(http.before)
                     => (http.status = 404 /\ sessions = http.before)
                /\ (sid \in deleted /\ sid \notin Range(http.before)) => http.status = 404
                /\ http.op \in {"list", "download"} => sessions = http.before
                /\ (http.op = "delete" /\ sid \in Range(http.before))
                     => /\ http.status = 200 /\ sid \in deleted
                        /\ Range(sessions) = Range(http.before) \ {sid}
                        /\ Len(sessions) = Len(http.before) - 1
                        /\ \A i, j \in 1..Len(sessions) : i < j => sessions[i] < sessions[j]

\* C25 witness: after delete-session had removed session 2 from a registry of
\* three, a download on that id returned 404 and the other two were still there.
C25_Witness ==
    /\ http.op = "download" /\ http.sid = Some(2) /\ http.status = 404
    /\ deleted = {2} /\ sessions = <<1, 3>>

----------------------------------------------------------------------------
(* Claims about what a turn leaves behind, checked under Spec *)

\* C31: a turn whose SQL pipeline used up its attempts returns the fixed
\* data-retrieval failure message with a flow value other than the one of a
\* successful good turn.
C31_RetrievalFailureFlowTag ==
    (pc = "idle" /\ ret.response = Resp(turn, "retrieval_failed")) => ret.flow # "good"

\* C32: after a turn that returned a good reply with a final answer or an
\* updated image, artefacts.answer is the final answer of that turn.
C32_AnswerIsLatest ==
    (pc = "idle" /\ ret.flow = "good" /\ reply \in {"final_answer", "image_updated"})
        => artefacts.answer = Some(turn)

\* C35: when no turn is in progress the history has even length and
\* alternates user, assistant, each user entry followed by the reply of the
\* same turn.
C35_HistoryAlternates ==
    pc = "idle"
        => /\ Len(history) % 2 = 0
           /\ \A i \in 1..Len(history) :
                 IF i % 2 = 1
                 THEN /\ history[i].role = "user"
                      /\ i < Len(history) => history[i + 1].turn = history[i].turn
                 ELSE history[i].role = "assistant"

\* C36: a turn that returned the apology with error-tagged metrics has left
\* the artefacts and the context as they were when it began.
C36_ErrorFallbackFrame ==
    (pc = "idle" /\ ret.flow = "error") => (artefacts = art0 /\ context = ctx0)

\* C39: when no turn is in progress and the session has stored a table, the
\* artefacts' data_file is the handle of the table stored last, data_{n-1}
\* when the data counter is n.
C39_DataFileIsLatestTable ==
    (pc = "idle" /\ counter.data > 0) => artefacts.data_file = Some(counter.data - 1)

----------------------------------------------------------------------------
(* A further claim about CacheManager, checked under SpecCache *)

\* C34: after any sequence of get and set calls on a CacheManager with
\* max_size >= 1 the cache holds at most max_size entries, and access_order
\* holds exactly the keys of the cache, each once.
C34_CacheStructure ==
    /\ max_size >= 1
    /\ Cardinality(DOMAIN cache) <= max_size
    /\ Range(access_order) = DOMAIN cache
    /\ Len(access_order) = Cardinality(DOMAIN cache)
    /\ \A i, j \in 1..Len(access_order) : i # j => access_order[i] # access_order[j]
    /\ ccall.err = "none"

\* C34 witness: a full cache of capacity 2 after a set that replaced the value
\* of its least recently used key, which moved to the end of access_order.
C34_Witness ==
    /\ max_size = 2 /\ Cardinality(DOMAIN cache) = 2 /\ Len(access_order) = 2
    /\ ccall.op = "set" /\ ccall.present /\ ccall.old # Some(ccall.val)
    /\ access_order[2] = ccall.key /\ lastAccess[access_order[1]] = 1
    /\ gotHit # {}

----------------------------------------------------------------------------
(* Claims about the response cache of a session, checked under Spec *)

\* C37: the response cache changes only in the step in which a turn returns
\* its good-flow reply, and then by one entry: the turn's reply under the key
\* computed when the turn began, from the context as it was before the turn's
\* context update. Turns that return the bad flow, the error fallback or a
\* cached reply leave every entry as it was.
C37_CachePopulation ==
    [][/\ cache' # cache
            => /\ pc = "translate_out" /\ pc' = "idle" /\ ret'.flow = "good"
               /\ cache_key' = cache_key
               /\ cache_key[2] = ContextPrefix(ctx0)
               /\ DOMAIN cache' = DOMAIN cache \cup {cache_key}
               /\ cache'[cache_key].response = ret'.response
               /\ \A k \in DOMAIN cache \ {cache_key} : cache'[k] = cache[k]
       /\ (pc # "idle" /\ pc' = "idle" /\ ret'.flow = "good")
            => (cache_key \in DOMAIN cache' /\ cache_key \notin DOMAIN cache)
       /\ (pc' = "idle" /\ ret'.flow \in {"bad", "error", "cached"})
            => cache' = cache
       /\ pc' # "idle" => cache_key'[2] = ContextPrefix(ctx0')]_vars

\* C37 witness: the second turn of a session began with a context whose
\* prefix differs from the initial one, changed the prefix again in its context
\* update, and stored its reply under the key of the prefix it began with.
C37_Witness ==
    /\ pc = "idle" /\ ret.flow = "good" /\ turn = 2
    /\ ContextPrefix(ctx0) = 1 /\ ContextPrefix(context) = 0
    /\ cache_key[2] = 1 /\ cache_key \in DOMAIN cache
    /\ cache[cache_key].response = Resp(2, reply)
    /\ Cardinality(DOMAIN cache) = 2

\* C40: a turn whose plan asks for no query, in a session whose artefacts hold
\* no table, raises when the branch is dispatched: it has started no
\* final-answer call and no image task, it returns the fixed apology with
\* error-tagged metrics, and artefacts and context are as they were.
C40_NoPriorTable ==
    /\ counter.data = 0 => (artefacts.data = None /\ art0.data = None)
    /\ (plan # None /\ ~plan[1].is_new_sql_query_needed /\ art0.data = None)
        => /\ pc = "idle"
           /\ ret.flow = "error" /\ ret.response = Apology
           /\ ret.keys = {"error", "session_id"} /\ ret.error = "AttributeError"
           /\ ans = "none" /\ img.pc = "none" /\ orphan.turn # turn
           /\ reply = "none" /\ merges = 0
           /\ artefacts = art0 /\ context = ctx0

\* C40 witness: the second turn of a session that had run a failed retrieval
\* and held no table planned an image only and returned the apology.
C40_Witness ==
    /\ pc = "idle" /\ turn = 2 /\ ret.flow = "error" /\ ret.error = "AttributeError"
    /\ plan = Some([is_new_sql_query_needed |-> FALSE, is_new_image_needed |-> TRUE])
    /\ Len(hist0) = 2 /\ art0.data = None /\ counter.data = 0

----------------------------------------------------------------------------
\* C33: session continuity. A chat call that carries an id present in the
\* registry is served under that same id by the agent instance the id was
\* mapped to, which begins the turn with the turn count and the context its
\* previous turns left, and the registry keeps its keys; a call with no id or
\* with an id not in the registry, when it is served, gets a new agent instance
\* that has served no turn, under an id that no session had before and that is
\* not the id supplied; and as long as an id stays in the registry it maps to
\* the same instance.
C33_SessionContinuity ==
    [][served'.n # served.n =>
         LET sid == served'.sid
             known == sid # None /\ sid[1] \in DOMAIN agents
         IN  /\ known =>
                  /\ served'.status = 200 /\ served'.out = sid[1]
                  /\ served'.inst = agents[sid[1]].inst
                  /\ served'.seen = agents[sid[1]].turns
                  /\ served'.ctx = agents[sid[1]].context
                  /\ sessions' = sessions /\ issued' = issued
                  /\ agents'[sid[1]].inst = agents[sid[1]].inst
                  /\ agents'[sid[1]].turns = agents[sid[1]].turns + 1
             /\ (~known /\ served'.status = 200) =>
                  /\ served'.out \notin Range(sessions) \cup deleted \cup {ForeignSid}
                  /\ served'.out > issued
                  /\ Some(served'.out) # sid
                  /\ served'.out \in DOMAIN agents'
                  /\ served'.inst = agents'[served'.out].inst
                  /\ served'.inst \notin {agents[i].inst : i \in DOMAIN agents}
                  /\ served'.inst > issued
                  /\ served'.seen = 0 /\ served'.ctx = InitContext
                  /\ agents'[served'.out].cache \in
                        {EmptyDict, (served'.key :> served'.reply)}
             /\ served'.status # 200 => (~known /\ UNCHANGED <<sessions, agents>>)
             /\ DOMAIN agents' = Range(sessions')
             /\ \A id \in DOMAIN agents \cap DOMAIN agents' :
                   /\ agents'[id].inst = agents[id].inst
                   /\ id # served'.out => agents'[id] = agents[id]
    ]_vars

\* After the first session was deleted, a call was given a second session under
\* a new id, and the next call carried that id and was served by the same agent
\* on its second turn
C33_Witness ==
    /\ served.n = 3 /\ served.status = 200
    /\ deleted = {1} /\ issued = 2
    /\ served.sid = Some(2) /\ served.out = 2 /\ served.inst = 2
    /\ served.seen = 1 /\ agents[2].turns = 2

----------------------------------------------------------------------------
\* C38: cache isolation between sessions. Every entry of an agent's cache was
\* put there by a turn of that same agent, and a reply a chat call took from
\* a cache was cached by a turn of the agent that served the call, also when
\* another session holds a reply under the same message and context prefix.
C38_CacheIsolation ==
    /\ \A id \in DOMAIN agents :
          /\ \A k \in DOMAIN agents[id].cache :
                agents[id].cache[k].inst = agents[id].inst
          /\ Range(agents[id].access_order) = DOMAIN agents[id].cache
    /\ served.status = 200 =>
          /\ served.reply.inst = served.inst
          /\ served.cached => served.reply.turn <= served.seen
          /\ ~served.cached => served.reply.turn = served.seen + 1
          /\ served.n = 1 => ~served.cached
    /\ \A i, j \in DOMAIN agents :
          i # j => \A k \in DOMAIN agents[i].cache \cap DOMAIN agents[j].cache :
                      agents[i].cache[k] # agents[j].cache[k]

\* Two sessions sent the same message with the same context prefix: the second
\* session's first turn missed although the first session held a reply under
\* that key
C38_Witness ==
    /\ served.n = 2 /\ served.status = 200 /\ ~served.cached
    /\ served.out = 2 /\ served.seen = 0
    /\ 1 \in DOMAIN agents /\ served.key \in DOMAIN agents[1].cache
    /\ served.key \in DOMAIN agents[2].cache
    /\ agents[1].cache[served.key].inst = 1
    /\ agents[2].cache[served.key].inst = 2

====
